---------------------------- MODULE Spec2Model ----------------------------
(***************************************************************************)
(* Chainscore/score-da: the block collectors of protocol/Celestia and      *)
(* protocol/Espresso (data/collect.py).                                    *)
(*                                                                         *)
(* Several state machines share this module, each with its own variables  *)
(* and its own specification; a specification leaves the other machines'  *)
(* variables at their idle values.                                        *)
(*                                                                         *)
(*   SpecApi  api_get of both collectors: the retry loop, one step per     *)
(*            attempt, the attempt's outcome chosen by the environment.    *)
(*   SpecRL   RateLimiter.acquire called by several threads, with a        *)
(*            discrete monotonic clock.                                    *)
(*   Spec     the Celestia collector: a sequence of process runs of        *)
(*            main() over one disk (checkpoint file, day files), with the  *)
(*            worker pool, the ordered consumer loop of collect_blocks,    *)
(*            SIGINT delivery and the --resume logic.                      *)
(*   SpecForeign  the Celestia collector started once over a checkpoint    *)
(*            file that no run of the collector wrote.                     *)
(*   SpecEsp  the Espresso collector: a sequence of process runs of        *)
(*            main() over one directory of day files, with the page        *)
(*            planner, the as_completed loop, dedup, sort and append.      *)
(*   SpecCollectors  either collector, one per behaviour.                  *)
(*   SpecWriters  the day-file writers of both collectors applied to       *)
(*            batches of blocks.                                           *)
(*   SpecAvail  protocol/Avail/data/transform.py: load_blocks and the      *)
(*            daily and hourly build_period over a small block table.      *)
(*   SpecFetch  Celestia's fetch_page in the worker threads: one           *)
(*            acquire() of the shared RateLimiter, then api_get's retry    *)
(*            loop sending the requests.                                   *)
(*   SpecSearch  one call of Espresso's find_height_at_timestamp.          *)
(***************************************************************************)
EXTENDS Integers, Sequences, FiniteSets, TLC

VARIABLES
    \* ---- api_get (SpecApi) ----
    api_collector,   \* "Celestia" | "Espresso": whose api_get runs
    api_retries,     \* the retries parameter
    api_attempt,     \* the loop variable attempt (0-based)
    api_pc,          \* "idle" | "loop" | "done"
    api_result,      \* "pending" | "body" | "None" | "RuntimeError"
    api_outcomes,    \* history: the outcome of each attempt made so far
    api_waits,       \* history: the argument of each sleep made so far
    \* ---- RateLimiter (SpecRL) ----
    clock,           \* time.monotonic(), in ticks
    rl_last,         \* RateLimiter._last
    rl_lock,         \* RateLimiter._lock: the holder, or NoThread
    rl_pc,           \* per thread: position inside acquire
    rl_now,          \* per thread: the local now
    rl_wait,         \* per thread: the local wait
    rl_calls,        \* number of acquire calls started
    rl_grants,       \* history: the instants at which _last was set
    \* ---- Celestia collector (Spec): the disk ----
    ckpt_file,       \* .checkpoint.json: its content
    day_files,       \* blocks/{date}.csv: date -> rows, in file order
    \* ---- Celestia collector: the process ----
    run,             \* number of processes started so far
    pc,              \* position of the main thread of the current process
    exit_code,       \* exit status of the last process (-1: none yet)
    exit_reason,     \* why the last process ended
    resume,          \* args.resume
    workers,         \* args.workers
    tip,             \* collect_blocks: tip
    total_pages,     \* collect_blocks: total_pages
    ckpt,            \* collect_blocks: ckpt, the loaded checkpoint (absent: None)
    start_page,      \* collect_blocks: start_page
    honored,         \* history: the checkpoint passed the resume test
    pages_done,      \* collect_blocks: pages_done
    all_blocks,      \* collect_blocks: all_blocks
    page,            \* per planned page: the state of its future
    blocks,          \* main: the list returned by collect_blocks
    shutdown_requested, \* the module-level flag
    sigints,         \* history: SIGINTs delivered to the current process
    prev,            \* history: summary of the previous process
    \* ---- Espresso collector (SpecEsp) ----
    e_files,         \* blocks/{date}.csv: date -> lines, in file order
    e_run,           \* number of processes started so far
    e_pc,            \* position of main in the current process
    e_exit_code,     \* exit status of the last process (-1: none yet)
    e_exit_reason,   \* why the last process ended
    e_workers,       \* args.workers
    e_tip,           \* main: tip
    e_start_height,  \* main: start_height
    e_max_collected, \* main: max_collected
    e_fetch_start,   \* main: fetch_start
    e_pages,         \* main: pages, the (from, limit) descriptors
    e_status,        \* per planned page: the state of its future
    e_all_blocks,    \* main: all_blocks, in completion order
    e_errors,        \* main: errors
    e_blocks,        \* main: all_blocks after dedup and sort
    e_failed,        \* history: the heights of the pages whose fetch raised
    \* ---- Avail transform (SpecAvail) ----
    av_raw,          \* the rows of the day files, as pd.concat yields them
    av_blocks,       \* load_blocks: the DataFrame main passes to build_period
    av_daily,        \* build_period(blocks, prices, "day")
    av_hourly,       \* build_period(blocks, prices, "hour")
    av_pc,           \* main: "idle" | "start" | "loaded" | "daily" | "hourly"
    \* ---- Celestia fetch_page in the worker threads (SpecFetch) ----
    fp_pc,           \* per thread: "off" | "idle" | "acquire" | "backoff"
    fp_attempt,      \* per thread: api_get's attempt
    fp_wake,         \* per thread: the instant its time.sleep is over
    fp_requests,     \* history: the HTTP requests sent, in order
    \* ---- Espresso find_height_at_timestamp (SpecSearch) ----
    fh_in,           \* the call: [lo, hi, target_ts, ts (height -> header timestamp)]
    fh_lo,           \* the local lo
    fh_hi,           \* the local hi
    fh_pc,           \* "loop" | "returned" | "raised"
    fh_result        \* the value returned

apiVars == <<api_collector, api_retries, api_attempt, api_pc, api_result,
             api_outcomes, api_waits>>
rlVars == <<clock, rl_last, rl_lock, rl_pc, rl_now, rl_wait, rl_calls, rl_grants>>

diskVars == <<ckpt_file, day_files>>
procVars == <<run, pc, exit_code, exit_reason, resume, workers, tip, total_pages,
              ckpt, start_page, honored, pages_done, all_blocks, page, blocks,
              shutdown_requested, sigints, prev>>
celVars == <<diskVars, procVars>>

espVars == <<e_files, e_run, e_pc, e_exit_code, e_exit_reason, e_workers, e_tip,
             e_start_height, e_max_collected, e_fetch_start, e_pages, e_status,
             e_all_blocks, e_errors, e_blocks, e_failed>>

avVars == <<av_raw, av_blocks, av_daily, av_hourly, av_pc>>

fpVars == <<fp_pc, fp_attempt, fp_wake, fp_requests>>

fhVars == <<fh_in, fh_lo, fh_hi, fh_pc, fh_result>>

\* The machines of single functions.
fnVars == <<avVars, fpVars, fhVars>>

vars == <<apiVars, rlVars, celVars, espVars, fnVars>>

-----------------------------------------------------------------------------
(* api_get                                                                 *)

\* MAX_RETRIES of each collector: the default of the retries parameter,
\* which no caller overrides.
CelestiaMaxRetries == 3
EspressoMaxRetries == 5
\* RETRY_DELAY_S of the Espresso collector, in seconds.
RETRY_DELAY_S == 1

Collectors == {"Celestia", "Espresso"}
Outcomes == {"success", "429", "error"}

MAX_RETRIES(c) == IF c = "Celestia" THEN CelestiaMaxRetries ELSE EspressoMaxRetries

Pow2(n) == IF n = 0 THEN 1 ELSE IF n = 1 THEN 2 ELSE IF n = 2 THEN 4
           ELSE IF n = 3 THEN 8 ELSE IF n = 4 THEN 16 ELSE IF n = 5 THEN 32 ELSE 64

\* The sleep after a 429 answer to attempt a.
Backoff429(c, a) ==
    IF c = "Celestia" THEN Pow2(a + 1) ELSE RETRY_DELAY_S * Pow2(a)

\* A sleep that grows linearly in both collectors.
BackoffError_Linear(c, a) == RETRY_DELAY_S * (a + 1)

\* The sleep after a RequestException in attempt a (taken only when a is not
\* the last attempt).
BackoffError(c, a) ==
    IF c = "Celestia" THEN 1 * (a + 1) ELSE RETRY_DELAY_S * Pow2(a)

\* What the function yields when the for loop runs out of attempts without a
\* return or a raise: Python's implicit "return None".
LoopExhausted == "None"

ApiInit ==
    /\ api_collector \in Collectors
    /\ api_retries = MAX_RETRIES(api_collector)
    /\ api_attempt = 0
    /\ api_pc = "loop"
    /\ api_result = "pending"
    /\ api_outcomes = <<>>
    /\ api_waits = <<>>

ApiIdle ==
    /\ api_collector = "Celestia"
    /\ api_retries = 0
    /\ api_attempt = 0
    /\ api_pc = "idle"
    /\ api_result = "pending"
    /\ api_outcomes = <<>>
    /\ api_waits = <<>>

\* The loop body with a 429 answer not counted as an attempt.
ApiAttempt_429Uncounted(o) ==
    /\ api_pc = "loop"
    /\ api_attempt < api_retries
    /\ api_outcomes' = Append(api_outcomes, o)
    /\ CASE o = "success" ->
              /\ api_result' = "body"
              /\ api_pc' = "done"
              /\ UNCHANGED <<api_attempt, api_waits>>
         [] o = "429" ->
              /\ api_waits' = Append(api_waits, Backoff429(api_collector, api_attempt))
              /\ UNCHANGED <<api_attempt, api_pc, api_result>>
         [] o = "error" ->
              IF api_attempt < api_retries - 1
                 THEN /\ api_waits' = Append(api_waits, BackoffError(api_collector, api_attempt))
                      /\ api_attempt' = api_attempt + 1
                      /\ api_pc' = "loop"
                      /\ UNCHANGED api_result
                 ELSE /\ api_result' = "RuntimeError"
                      /\ api_pc' = "done"
                      /\ UNCHANGED <<api_attempt, api_waits>>
    /\ UNCHANGED <<api_collector, api_retries>>

\* One pass through the body of "for attempt in range(retries)" with the
\* request's outcome o, up to the next request, the return or the raise.
ApiAttempt(o) ==
    /\ api_pc = "loop"
    /\ api_attempt < api_retries
    /\ api_outcomes' = Append(api_outcomes, o)
    /\ CASE o = "success" ->
              /\ api_result' = "body"
              /\ api_pc' = "done"
              /\ UNCHANGED <<api_attempt, api_waits>>
         [] o = "429" ->
              /\ api_waits' = Append(api_waits, Backoff429(api_collector, api_attempt))
              /\ api_attempt' = api_attempt + 1
              /\ IF api_attempt + 1 < api_retries
                    THEN /\ api_pc' = "loop"
                         /\ UNCHANGED api_result
                    ELSE /\ api_pc' = "done"
                         /\ api_result' = LoopExhausted
         [] o = "error" ->
              IF api_attempt < api_retries - 1
                 THEN /\ api_waits' = Append(api_waits, BackoffError(api_collector, api_attempt))
                      /\ api_attempt' = api_attempt + 1
                      /\ api_pc' = "loop"
                      /\ UNCHANGED api_result
                 ELSE /\ api_result' = "RuntimeError"
                      /\ api_pc' = "done"
                      /\ UNCHANGED <<api_attempt, api_waits>>
    /\ UNCHANGED <<api_collector, api_retries>>

ApiSuccess == ApiAttempt("success") /\ UNCHANGED <<rlVars, celVars, espVars, fnVars>>
ApiRateLimited == ApiAttempt("429") /\ UNCHANGED <<rlVars, celVars, espVars, fnVars>>
ApiRequestError == ApiAttempt("error") /\ UNCHANGED <<rlVars, celVars, espVars, fnVars>>

-----------------------------------------------------------------------------
(* Avail transform: load_blocks and build_period                           *)

\* Bounds of the transform's input: the number of rows in the day files,
\* the highest timestamp, and the scale of the calendar (timestamp units
\* per hour, hours per day).
AvMaxBlocks == 3
AvMaxTs == 4
AvHourLen == 2
AvHoursPerDay == 2

\* submit_data_bytes of a block.
AvSizes == {10, 20, 30}

\* A row of a day file: block_number is its position in the concatenation.
AvRows == [timestamp_ms : 0..AvMaxTs, submit_data_bytes : AvSizes]

\* The hour taken as the key whatever the period.
PeriodOf_Hour(period, ts) == ts \div AvHourLen

\* load_blocks, lines 32-34: _hour is the timestamp floored to the hour,
\* _day its UTC date.
PeriodOf(period, ts) ==
    IF period = "hour" THEN ts \div AvHourLen
    ELSE ts \div (AvHourLen * AvHoursPerDay)

\* sort_values(timestamp_col): the sort is by timestamp; rows of one
\* timestamp stay in the order they had.
AvInsert(b, t) ==
    LET k == Cardinality({i \in DOMAIN t : t[i].timestamp_ms <= b.timestamp_ms})
    IN  SubSeq(t, 1, k) \o <<b>> \o SubSeq(t, k + 1, Len(t))

RECURSIVE AvSort(_)
AvSort(s) ==
    IF s = <<>> THEN <<>>
    ELSE AvInsert(s[Len(s)], AvSort(SubSeq(s, 1, Len(s) - 1)))

\* load_blocks: the rows with their time columns, sorted by timestamp.
load_blocks(raw) ==
    AvSort([i \in DOMAIN raw |->
               [block_number |-> i,
                timestamp_ms |-> raw[i].timestamp_ms,
                submit_data_bytes |-> raw[i].submit_data_bytes,
                day |-> PeriodOf("day", raw[i].timestamp_ms),
                hour |-> PeriodOf("hour", raw[i].timestamp_ms)]])

\* The group key of a row: the column f"_{period}".
PCol(b, period) == IF period = "hour" THEN b.hour ELSE b.day

\* Series.sum over the rows of a group.
RECURSIVE SumBytes(_)
SumBytes(s) ==
    IF s = <<>> THEN 0
    ELSE s[1].submit_data_bytes + SumBytes(SubSeq(s, 2, Len(s)))

\* build_period, lines 31-41 and 75: groupby(pcol) makes one group per key
\* present, sorted by key; agg yields block_count (size) and
\* total_data_bytes (sum) per group; the merges are on the key, one row per
\* key on each side.
RECURSIVE BuildFrom(_, _, _)
BuildFrom(bs, period, keys) ==
    IF keys = {} THEN <<>>
    ELSE LET k == CHOOSE x \in keys : \A y \in keys : x <= y
             grp == SelectSeq(bs, LAMBDA b : PCol(b, period) = k)
         IN  <<[period |-> k, block_count |-> Len(grp),
                total_data_bytes |-> SumBytes(grp)]>>
             \o BuildFrom(bs, period, keys \ {k})

build_period(bs, period) ==
    BuildFrom(bs, period, {PCol(bs[i], period) : i \in DOMAIN bs})

AvInit ==
    /\ av_raw \in UNION {[1..n -> AvRows] : n \in 1..AvMaxBlocks}
    /\ av_blocks = <<>>
    /\ av_daily = <<>>
    /\ av_hourly = <<>>
    /\ av_pc = "start"

AvIdle ==
    /\ av_raw = <<>>
    /\ av_blocks = <<>>
    /\ av_daily = <<>>
    /\ av_hourly = <<>>
    /\ av_pc = "idle"


\* main, line 132.
AvLoad ==
    /\ av_pc = "start"
    /\ av_blocks' = load_blocks(av_raw)
    /\ av_pc' = "loaded"
    /\ UNCHANGED <<av_raw, av_daily, av_hourly>>

\* main, lines 137-139.
AvBuildDaily ==
    /\ av_pc = "loaded"
    /\ av_daily' = build_period(av_blocks, "day")
    /\ av_pc' = "daily"
    /\ UNCHANGED <<av_raw, av_blocks, av_hourly>>

\* main, lines 141-143.
AvBuildHourly ==
    /\ av_pc = "daily"
    /\ av_hourly' = build_period(av_blocks, "hour")
    /\ av_pc' = "hourly"
    /\ UNCHANGED <<av_raw, av_blocks, av_daily>>

AvLoadStep == AvLoad /\ UNCHANGED <<apiVars, rlVars, celVars, espVars, fpVars, fhVars>>
AvBuildDailyStep ==
    AvBuildDaily /\ UNCHANGED <<apiVars, rlVars, celVars, espVars, fpVars, fhVars>>
AvBuildHourlyStep ==
    AvBuildHourly /\ UNCHANGED <<apiVars, rlVars, celVars, espVars, fpVars, fhVars>>

-----------------------------------------------------------------------------
(* RateLimiter                                                             *)

\* Bounds of the rate limiter's model.
NThreads == 2
MaxCalls == 3
MaxClock == 8

\* RateLimiter.min_interval = 1.0 / rps, in clock ticks.
min_interval == 3

Threads == 1..NThreads
NoThread == 0

RLInit ==
    /\ clock \in 0..1
    /\ rl_last = 0
    /\ rl_lock = NoThread
    /\ rl_pc = [t \in Threads |-> "idle"]
    /\ rl_now = [t \in Threads |-> 0]
    /\ rl_wait = [t \in Threads |-> 0]
    /\ rl_calls = 0
    /\ rl_grants = <<>>

RLIdle ==
    /\ clock = 0
    /\ rl_last = 0
    /\ rl_lock = NoThread
    /\ rl_pc = [t \in Threads |-> "idle"]
    /\ rl_now = [t \in Threads |-> 0]
    /\ rl_wait = [t \in Threads |-> 0]
    /\ rl_calls = 0
    /\ rl_grants = <<>>

\* acquire without the lock: every caller enters at once.
LockFree_Always == TRUE

\* "with self._lock": the lock can be taken when nobody holds it.
LockFree == rl_lock = NoThread

\* time.sleep(w) started at instant now may return at instant c.
SleepOver(now, w, c) == c >= now + w

\* acquire, line 128: enter the with block.
RLEnter(t) ==
    /\ rl_pc[t] = "idle"
    /\ rl_calls < MaxCalls
    /\ LockFree
    /\ rl_lock' = t
    /\ rl_pc' = [rl_pc EXCEPT ![t] = "now"]
    /\ rl_calls' = rl_calls + 1
    /\ UNCHANGED <<clock, rl_last, rl_now, rl_wait, rl_grants>>

\* acquire, lines 129-131: read the clock, compute wait, branch.
RLReadNow(t) ==
    /\ rl_pc[t] = "now"
    /\ rl_now' = [rl_now EXCEPT ![t] = clock]
    /\ rl_wait' = [rl_wait EXCEPT ![t] = min_interval - (clock - rl_last)]
    /\ rl_pc' = [rl_pc EXCEPT ![t] =
                    IF min_interval - (clock - rl_last) > 0 THEN "sleep" ELSE "grant"]
    /\ UNCHANGED <<clock, rl_last, rl_lock, rl_calls, rl_grants>>

\* acquire, line 132: time.sleep(wait) returns.
RLWake(t) ==
    /\ rl_pc[t] = "sleep"
    /\ SleepOver(rl_now[t], rl_wait[t], clock)
    /\ rl_pc' = [rl_pc EXCEPT ![t] = "grant"]
    /\ UNCHANGED <<clock, rl_last, rl_lock, rl_now, rl_wait, rl_calls, rl_grants>>

\* acquire, line 133 and the end of the with block: set _last, release.
RLGrant(t) ==
    /\ rl_pc[t] = "grant"
    /\ rl_last' = clock
    /\ rl_grants' = Append(rl_grants, clock)
    /\ rl_lock' = IF rl_lock = t THEN NoThread ELSE rl_lock
    /\ rl_pc' = [rl_pc EXCEPT ![t] = "idle"]
    /\ UNCHANGED <<clock, rl_now, rl_wait, rl_calls>>

\* The monotonic clock advances.
Tick ==
    /\ clock < MaxClock
    /\ clock' = clock + 1
    /\ UNCHANGED <<rl_last, rl_lock, rl_pc, rl_now, rl_wait, rl_calls, rl_grants>>

RLEnterStep == \E t \in Threads : RLEnter(t) /\ UNCHANGED <<apiVars, celVars, espVars, fnVars>>
RLReadNowStep == \E t \in Threads : RLReadNow(t) /\ UNCHANGED <<apiVars, celVars, espVars, fnVars>>
RLWakeStep == \E t \in Threads : RLWake(t) /\ UNCHANGED <<apiVars, celVars, espVars, fnVars>>
RLGrantStep == \E t \in Threads : RLGrant(t) /\ UNCHANGED <<apiVars, celVars, espVars, fnVars>>
TickStep == Tick /\ UNCHANGED <<apiVars, celVars, espVars, fnVars>>

-----------------------------------------------------------------------------
(* Celestia collector: fetch_page in the worker threads                    *)

\* RPS_LIMIT = 2.8 (collect.py:49), times ten.
RPS_LIMIT_x10 == 28

\* The latest instant of the clock in the model of fetch_page.
FetchMaxClock == 12

\* A sleep of w seconds in clock ticks: min_interval ticks are 1/RPS_LIMIT
\* seconds; a sleep lasts at least the time asked for.
SecondsToTicks(w) == (w * min_interval * RPS_LIMIT_x10 + 9) \div 10

FetchInit ==
    /\ fp_pc = [t \in Threads |-> "idle"]
    /\ fp_attempt = [t \in Threads |-> 0]
    /\ fp_wake = [t \in Threads |-> 0]
    /\ fp_requests = <<>>

FetchIdle ==
    /\ fp_pc = [t \in Threads |-> "off"]
    /\ fp_attempt = [t \in Threads |-> 0]
    /\ fp_wake = [t \in Threads |-> 0]
    /\ fp_requests = <<>>

\* fetch_page, line 280: the worker thread t takes a page and calls
\* limiter.acquire().
FetchCall(t) ==
    /\ fp_pc[t] = "idle"
    /\ RLEnter(t)
    /\ fp_pc' = [fp_pc EXCEPT ![t] = "acquire"]
    /\ fp_attempt' = [fp_attempt EXCEPT ![t] = 0]
    /\ UNCHANGED <<fp_wake, fp_requests>>

\* Thread t is about to call requests.get: acquire has returned (the first
\* attempt of api_get, sent at the instant of the grant), or the sleep
\* after a failed attempt is over.
ReadyToSend(t) ==
    \/ fp_pc[t] = "acquire" /\ rl_pc[t] = "idle"
    \/ fp_pc[t] = "backoff" /\ clock >= fp_wake[t]

\* api_get, lines 142-156, called from fetch_page line 281: thread t sends
\* the request of the current attempt and gets the outcome o.
FetchRequest(t, o) ==
    LET a == fp_attempt[t]
        sleeps == o = "429" \/ (o = "error" /\ a < CelestiaMaxRetries - 1)
        w == IF o = "429" THEN Backoff429("Celestia", a) ELSE BackoffError("Celestia", a)
        ends == o = "success" \/ (o = "error" /\ ~sleeps) \/ (o = "429" /\ a + 1 >= CelestiaMaxRetries)
    IN  /\ ReadyToSend(t)
        /\ fp_requests' = Append(fp_requests, [at |-> clock, thread |-> t, attempt |-> a])
        /\ fp_attempt' = [fp_attempt EXCEPT ![t] = IF sleeps THEN a + 1 ELSE a]
        /\ fp_wake' = [fp_wake EXCEPT ![t] = IF sleeps THEN clock + SecondsToTicks(w) ELSE @]
        /\ fp_pc' = [fp_pc EXCEPT ![t] = IF ends THEN "idle" ELSE "backoff"]

\* The monotonic clock advances; a thread whose acquire has returned sends
\* its request before it does.
FetchTick ==
    /\ clock < FetchMaxClock
    /\ \A t \in Threads : ~(fp_pc[t] = "acquire" /\ rl_pc[t] = "idle")
    /\ clock' = clock + 1
    /\ UNCHANGED <<rl_last, rl_lock, rl_pc, rl_now, rl_wait, rl_calls, rl_grants>>

FetchCallStep ==
    \E t \in Threads :
        FetchCall(t) /\ UNCHANGED <<apiVars, celVars, espVars, avVars, fhVars>>
FetchRequestStep ==
    \E t \in Threads, o \in Outcomes :
        FetchRequest(t, o)
        /\ UNCHANGED <<apiVars, rlVars, celVars, espVars, avVars, fhVars>>
FetchTickStep == FetchTick /\ UNCHANGED <<apiVars, celVars, espVars, fnVars>>

-----------------------------------------------------------------------------
(* Espresso: find_height_at_timestamp                                      *)

FhMaxHeight == 5    \* the highest height a call may name
FhMaxTs == 1        \* the highest header timestamp
StopWidth == 1      \* the width at which the search stops (source: 100)

\* The calls: any 0 <= lo <= hi, any target, any header timestamps.
SearchCalls ==
    {c \in [lo : 0..FhMaxHeight, hi : 0..FhMaxHeight, target_ts : 0..(FhMaxTs + 1),
            ts : [0..FhMaxHeight -> 0..FhMaxTs]] : c.lo <= c.hi}

SearchInit ==
    /\ fh_in \in SearchCalls
    /\ fh_lo = fh_in.lo
    /\ fh_hi = fh_in.hi
    /\ fh_pc = "loop"
    /\ fh_result = 0 - 1

SearchIdle ==
    /\ fh_in = [lo |-> 0, hi |-> 0, target_ts |-> 0, ts |-> [h \in 0..FhMaxHeight |-> 0]]
    /\ fh_lo = 0
    /\ fh_hi = 0
    /\ fh_pc = "idle"
    /\ fh_result = 0 - 1

\* The test that moves lo up, with the bound included.
BelowTarget_Inclusive(ts, target_ts) == ts <= target_ts

\* Line 160: the test that moves lo up.
BelowTarget(ts, target_ts) == ts < target_ts

\* One iteration of the while loop, lines 157-163. o is the outcome of
\* header_timestamp(mid): the header's timestamp, or an exception of api_get
\* or of the parsing, which nothing in the function catches.
SearchIterate(o) ==
    LET mid == (fh_lo + fh_hi) \div 2
    IN  /\ fh_pc = "loop"
        /\ fh_hi - fh_lo > StopWidth
        /\ IF o = "raises"
              THEN /\ fh_pc' = "raised"
                   /\ UNCHANGED <<fh_lo, fh_hi>>
              ELSE /\ IF BelowTarget(fh_in.ts[mid], fh_in.target_ts)
                         THEN fh_lo' = mid /\ UNCHANGED fh_hi
                         ELSE fh_hi' = mid /\ UNCHANGED fh_lo
                   /\ UNCHANGED fh_pc
        /\ UNCHANGED <<fh_in, fh_result, apiVars, rlVars, celVars, espVars, avVars, fpVars>>

\* Lines 157 and 164: the loop condition fails, return lo.
SearchReturn ==
    /\ fh_pc = "loop"
    /\ ~(fh_hi - fh_lo > StopWidth)
    /\ fh_result' = fh_lo
    /\ fh_pc' = "returned"
    /\ UNCHANGED <<fh_in, fh_lo, fh_hi, apiVars, rlVars, celVars, espVars, avVars, fpVars>>

FnIdle == AvIdle /\ FetchIdle /\ SearchIdle

-----------------------------------------------------------------------------
(* Celestia collector: constants, inputs and data                          *)

\* Scaled program constants. The source has PAGE_SIZE = 100 (collect.py:47)
\* and checkpoints every 200 pages (collect.py:364); the model keeps their
\* roles and scales their values so that several pages, several periodic
\* checkpoints and several day files fit a run of MaxPages pages.
PAGE_SIZE == 4
CHECKPOINT_EVERY == 2

\* The tolerance of the resume test, collect.py:316.
TIP_TOLERANCE == 2000

\* Bounds of the collector's model.
MaxPages == 2       \* total_pages of a run (the scaled --days)
MaxWorkers == 2     \* --workers
MaxSigints == 2     \* SIGINTs delivered to one process
BaseTip == 5000     \* the chain tip seen by the first process
DayLen == 4         \* blocks the chain mints per UTC day

\* Movement of the chain tip between two processes.
Shifts == {0 - 1, 0, 3, TIP_TOLERANCE - 1, TIP_TOLERANCE}

\* The model starts the collector twice: a run and a re-run over the same disk.
Processes == {1, 2}

Abs(x) == IF x < 0 THEN 0 - x ELSE x

\* The UTC day of the block at height h (parse_iso_ts of the block's time);
\* block times increase with the height.
DateOf(h) == h \div DayLen

\* A parsed block: its height, the process that fetched it (standing for the
\* rest of the record's content) and its _date.
Block(h, r) == [height |-> h, src |-> r, date |-> DateOf(h)]

\* The row of a block in a day file: CSV_COLUMNS, without _date.
Row(b) == [height |-> b.height, src |-> b.src]

Heights(s) == {s[i].height : i \in DOMAIN s}

\* fetch_page on a successful answer: the API sorts descending and skips
\* offset blocks from the tip.
PageBlocks(t, p, r) ==
    [i \in 1..PAGE_SIZE |-> Block(t - p * PAGE_SIZE - (i - 1), r)]

\* The heights the page with index p covers under tip t.
PageHeights(t, p) == {t - p * PAGE_SIZE - (i - 1) : i \in 1..PAGE_SIZE}

\* collect_blocks, lines 374-381: keep the first record seen per height.
RECURSIVE DedupFrom(_, _, _, _)
DedupFrom(s, i, seen, acc) ==
    IF i > Len(s) THEN acc
    ELSE IF s[i].height \in seen
         THEN DedupFrom(s, i + 1, seen, acc)
         ELSE DedupFrom(s, i + 1, seen \cup {s[i].height}, Append(acc, s[i]))

\* Deduplication that keeps the record seen last for each height.
DedupByHeight_KeepLast(s) ==
    LET marked == SelectSeq([i \in DOMAIN s |->
                                [b |-> s[i],
                                 last |-> \A j \in DOMAIN s :
                                             s[j].height = s[i].height => j <= i]],
                            LAMBDA e : e.last)
    IN  [i \in DOMAIN marked |-> marked[i].b]

\* collect_blocks, lines 374-381, over the whole list.
DedupByHeight(s) == DedupFrom(s, 1, {}, <<>>)

\* list.sort / sorted with key = height: a stable sort.
InsertByHeight(b, t) ==
    LET k == Cardinality({i \in DOMAIN t : t[i].height <= b.height})
    IN  SubSeq(t, 1, k) \o <<b>> \o SubSeq(t, k + 1, Len(t))

RECURSIVE SortByHeight(_)
SortByHeight(s) ==
    IF s = <<>> THEN <<>>
    ELSE InsertByHeight(s[Len(s)], SortByHeight(SubSeq(s, 1, Len(s) - 1)))

MapRows(s) == [i \in DOMAIN s |-> Row(s[i])]

\* write_daily_csvs: one file per date of the batch, opened with "w".
write_daily_csvs(files, bs) ==
    LET dates == {bs[i].date : i \in DOMAIN bs}
        rows(d) == SortByHeight(SelectSeq(bs, LAMBDA b : b.date = d))
    IN  [d \in (DOMAIN files) \cup dates |->
            IF d \in dates THEN MapRows(rows(d)) ELSE files[d]]

\* load_existing_blocks: the rows of every day file, files in name order.
RECURSIVE LoadFrom(_, _)
LoadFrom(files, ds) ==
    IF ds = {} THEN <<>>
    ELSE LET d == CHOOSE x \in ds : \A y \in ds : x <= y
         IN  [i \in DOMAIN files[d] |->
                 [height |-> files[d][i].height, src |-> files[d][i].src, date |-> d]]
             \o LoadFrom(files, ds \ {d})

load_existing_blocks(files) == LoadFrom(files, DOMAIN files)

NoFiles == [d \in {} |-> <<>>]

\* Every height present in the day files.
FileHeights == UNION {Heights(day_files[d]) : d \in DOMAIN day_files}

\* ---- the checkpoint file ----

CkptAbsent ==
    [kind |-> "absent", has_pd |-> FALSE, pages_done |-> 0,
     has_tip |-> FALSE, tip_height |-> 0, total_pages |-> 0, saved_at |-> 0]

\* save_checkpoint: saved_at is the process that wrote the file.
save_checkpoint(pd, t, tp, at) ==
    [kind |-> "object", has_pd |-> TRUE, pages_done |-> pd,
     has_tip |-> TRUE, tip_height |-> t, total_pages |-> tp, saved_at |-> at]

\* Contents no process writes, found on disk by the first process:
\*   unreadable   read_text raises OSError
\*   undecodable  read_text raises UnicodeDecodeError (bytes that are not text)
\*   badjson      json.loads raises JSONDecodeError
\*   falsy        valid JSON that is falsy in Python: null, {}, [], 0, ""
\*   nondict      valid JSON, truthy, not an object: [1], 5, "x"
\*   object       a JSON object, possibly lacking pages_done or tip_height
ForeignCheckpoints ==
    {[CkptAbsent EXCEPT !.kind = k] :
        k \in {"unreadable", "undecodable", "badjson", "falsy", "nondict"}}
    \cup {[save_checkpoint(1, BaseTip, MaxPages, 0) EXCEPT !.has_pd = FALSE],
          [save_checkpoint(1, BaseTip, MaxPages, 0) EXCEPT !.has_tip = FALSE],
          [save_checkpoint(1, BaseTip + TIP_TOLERANCE, MaxPages, 0) EXCEPT !.has_pd = FALSE]}

\* load_checkpoint: the parsed value, None, or an exception that is not caught.
load_checkpoint(f) ==
    [raised |-> f.kind = "undecodable",
     none |-> f.kind \in {"absent", "unreadable", "badjson"},
     value |-> f]

\* The tip test with the bound included.
WithinTolerance_Inclusive(shift) == shift <= TIP_TOLERANCE

\* The resume test of collect_blocks, line 316.
WithinTolerance(shift) == shift < TIP_TOLERANCE

\* collect_blocks, lines 313-320: start_page, or the exception that ends the
\* process.
ResumeDecision(rs, f, t) ==
    LET c == load_checkpoint(f)
        v == c.value
        truthy == ~c.none /\ v.kind # "falsy"
        shift == Abs((IF v.has_tip THEN v.tip_height ELSE 0) - t)
        loaded == IF rs /\ ~c.raised /\ ~c.none THEN v ELSE CkptAbsent
        start(n, h) == [crash |-> FALSE, start_page |-> n, honored |-> h, ckpt |-> loaded]
        crash == [crash |-> TRUE, start_page |-> 0, honored |-> FALSE, ckpt |-> CkptAbsent]
    IN  IF ~rs THEN start(0, FALSE)
        ELSE IF c.raised THEN crash
        ELSE IF ~truthy THEN start(0, FALSE)
        ELSE IF v.kind = "nondict" THEN crash
        ELSE IF WithinTolerance(shift)
             THEN IF v.has_pd THEN start(v.pages_done, TRUE) ELSE crash
             ELSE start(0, FALSE)

\* The day files loaded whatever start_page is.
ExistingAtStart_Always(sp, files) == load_existing_blocks(files)

\* collect_blocks, lines 327-329: the blocks all_blocks starts with.
ExistingAtStart(sp, files) ==
    IF sp > 0 THEN load_existing_blocks(files) ELSE <<>>

-----------------------------------------------------------------------------
(* Celestia collector: the process                                         *)

NoPrev ==
    [reason |-> "none", shutdown |-> FALSE, tip |-> 0, total_pages |-> 0,
     start_page |-> 0, pages_done |-> 0, clean |-> FALSE]

\* The disk of the first process: no day file, and a checkpoint file from the
\* set cs.
CelInit(cs) ==
    /\ ckpt_file \in cs
    /\ day_files = NoFiles
    /\ run = 0
    /\ pc = "none"
    /\ exit_code = 0 - 1
    /\ exit_reason = "none"
    /\ resume = FALSE
    /\ workers = 1
    /\ tip = BaseTip
    /\ total_pages = 0
    /\ ckpt = CkptAbsent
    /\ start_page = 0
    /\ honored = FALSE
    /\ pages_done = 0
    /\ all_blocks = <<>>
    /\ page = [p \in {} |-> "pending"]
    /\ blocks = <<>>
    /\ shutdown_requested = FALSE
    /\ sigints = 0
    /\ prev = NoPrev

CelIdle ==
    /\ ckpt_file = CkptAbsent
    /\ day_files = NoFiles
    /\ run = 0
    /\ pc = "idle"
    /\ exit_code = 0 - 1
    /\ exit_reason = "none"
    /\ resume = FALSE
    /\ workers = 1
    /\ tip = BaseTip
    /\ total_pages = 0
    /\ ckpt = CkptAbsent
    /\ start_page = 0
    /\ honored = FALSE
    /\ pages_done = 0
    /\ all_blocks = <<>>
    /\ page = [p \in {} |-> "pending"]
    /\ blocks = <<>>
    /\ shutdown_requested = FALSE
    /\ sigints = 0
    /\ prev = NoPrev

Alive == pc \in {"collect", "pool_exit", "collected", "written"}

\* What is remembered of a process once it has ended.
Summary ==
    [reason |-> exit_reason, shutdown |-> shutdown_requested, tip |-> tip,
     total_pages |-> total_pages, start_page |-> start_page,
     pages_done |-> pages_done,
     clean |-> \A p \in DOMAIN page :
                  (start_page <= p /\ p < pages_done) => page[p] = "ok"]

\* The process ends with this exit status; its memory is gone.
Exit(code, reason) ==
    /\ pc' = "exited"
    /\ exit_code' = code
    /\ exit_reason' = reason
    /\ prev' = [Summary EXCEPT !.reason = reason]
    /\ ckpt' = CkptAbsent
    /\ all_blocks' = <<>>
    /\ page' = [p \in {} |-> "pending"]
    /\ blocks' = <<>>

\* The futures pool.map created for offsets, line 332: one per page from
\* start_page on, all submitted at once.
PlannedPages(sp, n) ==
    [p \in 0..(n - 1) |-> IF p < sp THEN "skipped" ELSE "pending"]

\* A pending page is being fetched by a worker thread when fewer than
\* `workers` pages submitted before it are still pending: the pool's threads
\* take the submitted tasks in order, as soon as they are free.
Running(p) ==
    /\ page[p] = "pending"
    /\ Cardinality({q \in DOMAIN page : q < p /\ page[q] = "pending"}) < workers

\* result_iterator's finally clause: every future not yet running is
\* cancelled; the running ones run to their end.
CancelPending ==
    [p \in DOMAIN page |->
        IF page[p] = "pending" /\ ~Running(p) THEN "cancelled" ELSE page[p]]

\* main() up to the consumer loop of collect_blocks (lines 621-338): the
\* tip is read, the checkpoint consulted, the existing blocks loaded and the
\* pages submitted. d is the movement of the tip since the last process.
StartRun(rs, d, n, w) ==
    LET t == IF run = 0 THEN BaseTip ELSE tip + d
        dec == ResumeDecision(rs, ckpt_file, t)
    IN  /\ pc \in {"none", "exited"}
        /\ run + 1 \in Processes
        /\ run > 0 => (n = total_pages /\ w = workers)
        /\ run' = run + 1
        /\ resume' = rs
        /\ workers' = w
        /\ tip' = t
        /\ total_pages' = n
        /\ shutdown_requested' = FALSE
        /\ sigints' = 0
        /\ blocks' = <<>>
        /\ honored' = dec.honored
        /\ start_page' = dec.start_page
        /\ pages_done' = dec.start_page
        /\ IF dec.crash
              THEN /\ pc' = "exited"
                   /\ exit_code' = 1
                   /\ exit_reason' = "checkpoint_error"
                   /\ prev' = [NoPrev EXCEPT !.reason = "checkpoint_error", !.tip = t,
                                             !.total_pages = n]
                   /\ ckpt' = CkptAbsent
                   /\ all_blocks' = <<>>
                   /\ page' = [p \in {} |-> "pending"]
              ELSE /\ pc' = "collect"
                   /\ ckpt' = dec.ckpt
                   /\ exit_code' = 0 - 1
                   /\ exit_reason' = "none"
                   /\ all_blocks' = ExistingAtStart(dec.start_page, day_files)
                   /\ page' = PlannedPages(dec.start_page, n)
                   /\ UNCHANGED prev
        /\ UNCHANGED diskVars

\* fetch_page returns in a worker thread. o is what api_get and parse_block
\* made of the request: "ok" (a page of blocks), "empty" (api_get returned
\* None or an empty list: fetch_page returns []), "failed" (an exception).
WorkerFinish(p, o) ==
    /\ pc \in {"collect", "pool_exit"}
    /\ p \in DOMAIN page
    /\ Running(p)
    /\ page' = [page EXCEPT ![p] = o]
    /\ UNCHANGED <<diskVars, run, pc, exit_code, exit_reason, resume, workers, tip,
                   total_pages, ckpt, start_page, honored, pages_done, all_blocks, blocks,
                   shutdown_requested, sigints, prev>>

\* The blocks a finished future yields.
ResultOf(p) ==
    IF page[p] = "ok" THEN PageBlocks(tip, p, run) ELSE <<>>

\* The checkpoint file after the loop body handled its (i+1)-th page.
PeriodicCheckpoint(done, f) ==
    IF (done - start_page) % CHECKPOINT_EVERY = 0
       THEN save_checkpoint(done, tip, total_pages, run)
       ELSE f

\* A loop that takes the pages as they complete: any fetched page from
\* pages_done on is added.
ConsumePage_AsCompleted ==
    /\ pc = "collect"
    /\ pages_done \in DOMAIN page
    /\ ~shutdown_requested
    /\ \E q \in DOMAIN page :
          /\ q >= pages_done
          /\ page[q] \in {"ok", "empty"}
          /\ all_blocks' = all_blocks \o ResultOf(q)
    /\ pages_done' = pages_done + 1
    /\ ckpt_file' = PeriodicCheckpoint(pages_done + 1, ckpt_file)
    /\ UNCHANGED <<day_files, run, pc, exit_code, exit_reason, resume, workers, tip,
                   total_pages, ckpt, start_page, honored, page, blocks,
                   shutdown_requested, sigints, prev>>

\* One iteration of the for loop, lines 342-365, for a page that was
\* fetched and with shutdown_requested not set: the page is added.
ConsumePage ==
    /\ pc = "collect"
    /\ pages_done \in DOMAIN page
    /\ page[pages_done] \in {"ok", "empty"}
    /\ ~shutdown_requested
    /\ all_blocks' = all_blocks \o ResultOf(pages_done)
    /\ pages_done' = pages_done + 1
    /\ ckpt_file' = PeriodicCheckpoint(pages_done + 1, ckpt_file)
    /\ UNCHANGED <<day_files, run, pc, exit_code, exit_reason, resume, workers, tip,
                   total_pages, ckpt, start_page, honored, page, blocks,
                   shutdown_requested, sigints, prev>>

\* One iteration of the for loop with shutdown_requested set, lines 343-344:
\* break. The page handed over is not added; leaving the loop closes the
\* iterator of pool.map.
BreakOnShutdown ==
    /\ pc = "collect"
    /\ pages_done \in DOMAIN page
    /\ page[pages_done] \in {"ok", "empty"}
    /\ shutdown_requested
    /\ page' = CancelPending
    /\ pc' = "pool_exit"
    /\ UNCHANGED <<diskVars, run, exit_code, exit_reason, resume, workers, tip,
                   total_pages, ckpt, start_page, honored, pages_done, all_blocks, blocks,
                   shutdown_requested, sigints, prev>>

\* The iterator of pool.map re-raises the exception of the page's fetch,
\* line 342; nothing in collect_blocks or main catches it.
PageRaises ==
    /\ pc = "collect"
    /\ pages_done \in DOMAIN page
    /\ page[pages_done] = "failed"
    /\ page' = CancelPending
    /\ pc' = "pool_exit"
    /\ exit_reason' = "page_failure"
    /\ UNCHANGED <<diskVars, run, exit_code, resume, workers, tip,
                   total_pages, ckpt, start_page, honored, pages_done, all_blocks, blocks,
                   shutdown_requested, sigints, prev>>

\* The with block of the pool is left once no worker thread is running.
PoolIdle == \A p \in DOMAIN page : page[p] # "pending"

\* The exception of a failed page leaves the with block, collect_blocks and
\* main: the process ends with a traceback.
PoolCrash ==
    /\ pc = "pool_exit"
    /\ exit_reason = "page_failure"
    /\ PoolIdle
    /\ Exit(1, "page_failure")
    /\ UNCHANGED <<diskVars, run, resume, workers, tip, total_pages, start_page,
                   honored, pages_done, shutdown_requested, sigints>>

\* collect_blocks, lines 367-385: the final checkpoint, then dedup and sort.
FinishCollect ==
    /\ \/ pc = "pool_exit" /\ exit_reason # "page_failure" /\ PoolIdle
       \/ pc = "collect" /\ pages_done \notin DOMAIN page
    /\ ckpt_file' = save_checkpoint(pages_done, tip, total_pages, run)
    /\ blocks' = SortByHeight(DedupByHeight(all_blocks))
    /\ pc' = "collected"
    /\ UNCHANGED <<day_files, run, exit_code, exit_reason, resume, workers, tip,
                   total_pages, ckpt, start_page, honored, pages_done, all_blocks, page,
                   shutdown_requested, sigints, prev>>

\* main, lines 648-650.
MainNoBlocks ==
    /\ pc = "collected"
    /\ blocks = <<>>
    /\ Exit(1, "no_blocks")
    /\ UNCHANGED <<diskVars, run, resume, workers, tip, total_pages, start_page,
                   honored, pages_done, shutdown_requested, sigints>>

\* main, lines 652-654.
MainWrite ==
    /\ pc = "collected"
    /\ blocks # <<>>
    /\ day_files' = write_daily_csvs(day_files, blocks)
    /\ pc' = "written"
    /\ UNCHANGED <<ckpt_file, run, exit_code, exit_reason, resume, workers, tip,
                   total_pages, ckpt, start_page, honored, pages_done, all_blocks, page,
                   blocks, shutdown_requested, sigints, prev>>

\* clear_checkpoint called whatever the flag says.
ClearUnlessShutdown_Always(f) == CkptAbsent

\* clear_checkpoint, guarded as in main, line 683.
ClearUnlessShutdown(f) == IF ~shutdown_requested THEN CkptAbsent ELSE f

\* main, lines 656-687: prices and chain_config.json (files the model does
\* not hold; a failing price fetch is caught), clear_checkpoint, summary.
MainFinish ==
    /\ pc = "written"
    /\ ckpt_file' = ClearUnlessShutdown(ckpt_file)
    /\ Exit(0, "completed")
    /\ UNCHANGED <<day_files, run, resume, workers, tip, total_pages, start_page,
                   honored, pages_done, shutdown_requested, sigints>>

\* A handler that exits on the first SIGINT already.
HandlerExits_Always(flag) == TRUE

\* _handle_sigint: what a SIGINT does when the flag has the value flag.
HandlerExits(flag) == flag

\* A SIGINT is delivered to the process.
Sigint ==
    /\ Alive
    /\ sigints < MaxSigints
    /\ sigints' = sigints + 1
    /\ IF HandlerExits(shutdown_requested)
          THEN /\ Exit(1, "force_exit")
               /\ UNCHANGED shutdown_requested
          ELSE /\ shutdown_requested' = TRUE
               /\ UNCHANGED <<pc, exit_code, exit_reason, ckpt, all_blocks, page, blocks, prev>>
    /\ UNCHANGED <<diskVars, run, resume, workers, tip, total_pages, start_page,
                   honored, pages_done>>

StartRunStep ==
    \E rs \in BOOLEAN, d \in Shifts, n \in 1..MaxPages, w \in 1..MaxWorkers :
        StartRun(rs, d, n, w) /\ UNCHANGED <<apiVars, rlVars, espVars, fnVars>>
WorkerFinishStep ==
    \E p \in 0..(MaxPages - 1), o \in {"ok", "empty", "failed"} :
        WorkerFinish(p, o) /\ UNCHANGED <<apiVars, rlVars, espVars, fnVars>>
ConsumePageStep == ConsumePage /\ UNCHANGED <<apiVars, rlVars, espVars, fnVars>>
BreakOnShutdownStep == BreakOnShutdown /\ UNCHANGED <<apiVars, rlVars, espVars, fnVars>>
PageRaisesStep == PageRaises /\ UNCHANGED <<apiVars, rlVars, espVars, fnVars>>
PoolCrashStep == PoolCrash /\ UNCHANGED <<apiVars, rlVars, espVars, fnVars>>
FinishCollectStep == FinishCollect /\ UNCHANGED <<apiVars, rlVars, espVars, fnVars>>
MainNoBlocksStep == MainNoBlocks /\ UNCHANGED <<apiVars, rlVars, espVars, fnVars>>
MainWriteStep == MainWrite /\ UNCHANGED <<apiVars, rlVars, espVars, fnVars>>
MainFinishStep == MainFinish /\ UNCHANGED <<apiVars, rlVars, espVars, fnVars>>
SigintStep == Sigint /\ UNCHANGED <<apiVars, rlVars, espVars, fnVars>>

-----------------------------------------------------------------------------
(* Espresso collector: data                                                *)

\* The highest chain tip a process sees, and how far below it the first
\* process may find the tip.
EspMaxTip == 9
EspTipSpread == 2

\* timestamp_ms of the block at height h: non-decreasing in the height.
TsOf(h) == h

\* The local day of a timestamp, in a time zone one unit ahead of UTC.
ts_to_date_Local(ts) == (ts + 1) \div DayLen

\* ts_to_date: the UTC day of a timestamp.
ts_to_date(ts) == ts \div DayLen

\* A block summary as fetch_page parses it.
EspBlock(h) == [height |-> h, timestamp_ms |-> TsOf(h)]

\* The lines of a day file: the header row and the data rows.
HeaderLine == [kind |-> "header", height |-> 0 - 1, timestamp_ms |-> 0 - 1]
RowLine(b) == [kind |-> "row", height |-> b.height, timestamp_ms |-> b.timestamp_ms]

EspNoFiles == [d \in {} |-> <<>>]

\* The data rows of a day file as csv.DictReader yields them: every line
\* after the first.
DataRows(lines) == SubSeq(lines, 2, Len(lines))

\* Every height present in the Espresso day files.
EspFileHeights ==
    UNION {{e_files[d][i].height : i \in 2..Len(e_files[d])} : d \in DOMAIN e_files}

\* A scan that reads the first day file instead of the last.
scan_existing_data_First(files) ==
    IF DOMAIN files = {} THEN 0 - 1
    ELSE LET first == CHOOSE d \in DOMAIN files : \A x \in DOMAIN files : d <= x
             hs == {DataRows(files[first])[i].height : i \in DOMAIN DataRows(files[first])}
         IN  IF hs = {} THEN 0 - 1 ELSE CHOOSE h \in hs : \A g \in hs : g <= h

\* scan_existing_data: the highest height in the last day file, -1 without
\* day files.
scan_existing_data(files) ==
    IF DOMAIN files = {} THEN 0 - 1
    ELSE LET last == CHOOSE d \in DOMAIN files : \A x \in DOMAIN files : x <= d
             hs == {DataRows(files[last])[i].height : i \in DOMAIN DataRows(files[last])}
         IN  IF hs = {} THEN 0 - 1 ELSE CHOOSE h \in hs : \A g \in hs : g <= h

\* A collector that never resumes: fetching starts at start_height.
FetchStart_Fresh(max_collected, start_height) == start_height

\* A resume that starts at the highest collected height itself.
FetchStart_AtMax(max_collected, start_height) ==
    IF max_collected >= start_height THEN max_collected ELSE start_height

\* main, lines 331-344: where fetching starts.
FetchStart(max_collected, start_height) ==
    IF max_collected >= start_height THEN max_collected + 1 ELSE start_height

Min(a, b) == IF a <= b THEN a ELSE b

\* Every page taken to be a full one.
PageEnd_Full(page_start, t) == page_start + PAGE_SIZE - 1

\* main, line 357: the highest height of the page that starts at page_start.
PageEnd(page_start, t) == Min(page_start + PAGE_SIZE - 1, t)

\* main, lines 353-360: the page planner.
RECURSIVE PlanFrom(_, _)
PlanFrom(page_start, t) ==
    IF page_start > t THEN <<>>
    ELSE LET page_end == PageEnd(page_start, t)
         IN  <<[from |-> page_end, limit |-> page_end - page_start + 1]>>
             \o PlanFrom(page_start + PAGE_SIZE, t)

\* The blocks the API returns for /blocks/from/limit, descending from from;
\* extra is the number of blocks it returns below the requested ones.
EspPageBlocks(pg, extra) ==
    LET all == [i \in 1..(pg.limit + extra) |-> EspBlock(pg.from - (i - 1))]
    IN  SelectSeq(all, LAMBDA b : b.height >= 0)

\* main, lines 402-408: keep the first record seen per height, inside
\* [fetch_start, tip].
RECURSIVE EspDedupFrom(_, _, _, _, _, _)
EspDedupFrom(s, i, seen, acc, lo, hi) ==
    IF i > Len(s) THEN acc
    ELSE IF s[i].height \notin seen /\ lo <= s[i].height /\ s[i].height <= hi
         THEN EspDedupFrom(s, i + 1, seen \cup {s[i].height}, Append(acc, s[i]), lo, hi)
         ELSE EspDedupFrom(s, i + 1, seen, acc, lo, hi)

EspDedup(s, lo, hi) == EspDedupFrom(s, 1, {}, <<>>, lo, hi)

\* The list left in the order it has.
EspSort_None(s) == s

\* main, line 409, and write_day_files, line 246: list.sort by height.
EspSort(s) == SortByHeight(s)

MapRowLines(s) == [i \in DOMAIN s |-> RowLine(s[i])]

\* A writer that puts the header before every batch of rows.
DayFileLines_HeaderEachTime(exists, old, rows) == old \o <<HeaderLine>> \o rows

\* write_day_files, lines 249-268: the lines of a day file after the rows
\* of a batch are written to it.
DayFileLines(exists, old, rows) ==
    IF exists THEN old \o rows ELSE <<HeaderLine>> \o rows

\* write_day_files: the batch is split by date; each date's rows, sorted by
\* height, are appended to the date's file, which is created if missing.
write_day_files(files, bs) ==
    LET dates == {ts_to_date(bs[i].timestamp_ms) : i \in DOMAIN bs}
        day_blocks(d) ==
            EspSort(SelectSeq(bs, LAMBDA b : ts_to_date(b.timestamp_ms) = d))
    IN  [d \in (DOMAIN files) \cup dates |->
            IF d \in dates
               THEN DayFileLines(d \in DOMAIN files,
                                 IF d \in DOMAIN files THEN files[d] ELSE <<>>,
                                 MapRowLines(day_blocks(d)))
               ELSE files[d]]

-----------------------------------------------------------------------------
(* Espresso collector: the process                                         *)

EspInit ==
    /\ e_files = EspNoFiles
    /\ e_run = 0
    /\ e_pc = "none"
    /\ e_exit_code = 0 - 1
    /\ e_exit_reason = "none"
    /\ e_workers = 1
    /\ e_tip = EspMaxTip - EspTipSpread
    /\ e_start_height = 0
    /\ e_max_collected = 0 - 1
    /\ e_fetch_start = 0
    /\ e_pages = <<>>
    /\ e_status = <<>>
    /\ e_all_blocks = <<>>
    /\ e_errors = 0
    /\ e_blocks = <<>>
    /\ e_failed = {}

EspIdle ==
    /\ e_files = EspNoFiles
    /\ e_run = 0
    /\ e_pc = "idle"
    /\ e_exit_code = 0 - 1
    /\ e_exit_reason = "none"
    /\ e_workers = 1
    /\ e_tip = 0
    /\ e_start_height = 0
    /\ e_max_collected = 0 - 1
    /\ e_fetch_start = 0
    /\ e_pages = <<>>
    /\ e_status = <<>>
    /\ e_all_blocks = <<>>
    /\ e_errors = 0
    /\ e_blocks = <<>>
    /\ e_failed = {}

\* main returns (the interpreter then exits with status 0); the process's
\* memory is gone.
EspReturn(reason) ==
    /\ e_pc' = "exited"
    /\ e_exit_code' = 0
    /\ e_exit_reason' = reason
    /\ e_pages' = <<>>
    /\ e_status' = <<>>
    /\ e_all_blocks' = <<>>
    /\ e_blocks' = <<>>

\* A submitted page is being fetched when fewer than `workers` pages
\* submitted before it are still unfinished.
EspRunning(p) ==
    /\ e_status[p] = "pending"
    /\ Cardinality({q \in DOMAIN e_status : q < p /\ e_status[q] = "pending"}) < e_workers

\* main, lines 278-375: the tip t and the start height s are found (from
\* --blocks or --days), the day files are scanned, the pages are planned and
\* submitted. The tip does not go down between two processes.
EspStart(t, s, w) ==
    LET mc == scan_existing_data(e_files)
        fs == FetchStart(mc, s)
    IN  /\ e_pc \in {"none", "exited"}
        /\ e_run + 1 \in Processes
        /\ t >= e_tip
        /\ e_run > 0 => w = e_workers
        /\ e_run' = e_run + 1
        /\ e_workers' = w
        /\ e_tip' = t
        /\ e_start_height' = s
        /\ e_max_collected' = mc
        /\ e_fetch_start' = fs
        /\ e_errors' = 0
        /\ IF fs > t
              THEN EspReturn("up_to_date")
              ELSE /\ e_pc' = "fetch"
                   /\ e_exit_code' = 0 - 1
                   /\ e_exit_reason' = "none"
                   /\ e_pages' = PlanFrom(fs, t)
                   /\ e_status' = [p \in DOMAIN PlanFrom(fs, t) |-> "pending"]
                   /\ e_all_blocks' = <<>>
                   /\ e_blocks' = <<>>
        /\ UNCHANGED <<e_files, e_failed>>

\* The heights page pg asks for.
EspPageHeights(pg) == (pg.from - pg.limit + 1)..pg.from

\* What the future of page p yields for the outcome o of its fetch: "ok"
\* (the requested blocks), "wide" (one block more than requested), "empty"
\* (api_get returned no dict: fetch_page returns []), "failed" (an exception).
EspResultOf(p, o) ==
    CASE o = "ok" -> EspPageBlocks(e_pages[p], 0)
      [] o = "wide" -> EspPageBlocks(e_pages[p], 1)
      [] OTHER -> <<>>

\* A failed page that takes the blocks collected before it with it.
EspPageDone_FailureDrops(p, o) ==
    /\ e_pc = "fetch"
    /\ p \in DOMAIN e_status
    /\ EspRunning(p)
    /\ e_status' = [e_status EXCEPT ![p] = o]
    /\ e_all_blocks' = IF o = "failed" THEN <<>> ELSE e_all_blocks \o EspResultOf(p, o)
    /\ e_errors' = IF o = "failed" THEN e_errors + 1 ELSE e_errors
    /\ e_failed' = IF o = "failed" THEN e_failed \cup EspPageHeights(e_pages[p])
                   ELSE e_failed
    /\ UNCHANGED <<e_files, e_run, e_pc, e_exit_code, e_exit_reason, e_workers, e_tip,
                   e_start_height, e_max_collected, e_fetch_start, e_pages, e_blocks>>

\* One iteration of the as_completed loop, lines 377-390: the future of
\* page p completes and is handled.
EspPageDone(p, o) ==
    /\ e_pc = "fetch"
    /\ p \in DOMAIN e_status
    /\ EspRunning(p)
    /\ e_status' = [e_status EXCEPT ![p] = o]
    /\ e_all_blocks' = e_all_blocks \o EspResultOf(p, o)
    /\ e_errors' = IF o = "failed" THEN e_errors + 1 ELSE e_errors
    /\ e_failed' = IF o = "failed" THEN e_failed \cup EspPageHeights(e_pages[p])
                   ELSE e_failed
    /\ UNCHANGED <<e_files, e_run, e_pc, e_exit_code, e_exit_reason, e_workers, e_tip,
                   e_start_height, e_max_collected, e_fetch_start, e_pages, e_blocks>>

EspAllDone == \A p \in DOMAIN e_status : e_status[p] # "pending"

\* main, lines 397-399: nothing was fetched.
EspNoBlocks ==
    /\ e_pc = "fetch"
    /\ EspAllDone
    /\ e_all_blocks = <<>>
    /\ EspReturn("no_blocks")
    /\ UNCHANGED <<e_files, e_run, e_workers, e_tip, e_start_height, e_max_collected,
                   e_fetch_start, e_errors, e_failed>>

\* main, lines 401-420: dedup and sort.
EspDedupSort ==
    /\ e_pc = "fetch"
    /\ EspAllDone
    /\ e_all_blocks # <<>>
    /\ e_blocks' = EspSort(EspDedup(e_all_blocks, e_fetch_start, e_tip))
    /\ e_pc' = "deduped"
    /\ UNCHANGED <<e_files, e_run, e_exit_code, e_exit_reason, e_workers, e_tip,
                   e_start_height, e_max_collected, e_fetch_start, e_pages, e_status,
                   e_all_blocks, e_errors, e_failed>>

\* main, line 424.
EspWrite ==
    /\ e_pc = "deduped"
    /\ e_files' = write_day_files(e_files, e_blocks)
    /\ e_pc' = "written"
    /\ UNCHANGED <<e_run, e_exit_code, e_exit_reason, e_workers, e_tip,
                   e_start_height, e_max_collected, e_fetch_start, e_pages, e_status,
                   e_all_blocks, e_errors, e_blocks, e_failed>>

\* main, lines 426-472: chain_config.json and the summary.
EspFinish ==
    /\ e_pc = "written"
    /\ EspReturn("completed")
    /\ UNCHANGED <<e_files, e_run, e_workers, e_tip, e_start_height, e_max_collected,
                   e_fetch_start, e_errors, e_failed>>

EspStartStep ==
    \E t \in (EspMaxTip - EspTipSpread)..EspMaxTip, s \in 0..EspMaxTip, w \in 1..MaxWorkers :
        s <= t /\ EspStart(t, s, w) /\ UNCHANGED <<apiVars, rlVars, celVars, fnVars>>
EspPageDoneStep ==
    \E p \in 1..(EspMaxTip + 1), o \in {"ok", "wide", "empty", "failed"} :
        EspPageDone(p, o) /\ UNCHANGED <<apiVars, rlVars, celVars, fnVars>>
EspNoBlocksStep == EspNoBlocks /\ UNCHANGED <<apiVars, rlVars, celVars, fnVars>>
EspDedupSortStep == EspDedupSort /\ UNCHANGED <<apiVars, rlVars, celVars, fnVars>>
EspWriteStep == EspWrite /\ UNCHANGED <<apiVars, rlVars, celVars, fnVars>>
EspFinishStep == EspFinish /\ UNCHANGED <<apiVars, rlVars, celVars, fnVars>>

-----------------------------------------------------------------------------
(* Specifications                                                          *)

InitApi == ApiInit /\ RLIdle /\ CelIdle /\ EspIdle /\ FnIdle
NextApi == ApiSuccess \/ ApiRateLimited \/ ApiRequestError
SpecApi == InitApi /\ [][NextApi]_vars

InitRL == RLInit /\ ApiIdle /\ CelIdle /\ EspIdle /\ FnIdle
NextRL == RLEnterStep \/ RLReadNowStep \/ RLWakeStep \/ RLGrantStep \/ TickStep
SpecRL == InitRL /\ [][NextRL]_vars

Init == CelInit({CkptAbsent}) /\ ApiIdle /\ RLIdle /\ EspIdle /\ FnIdle
Next ==
    \/ StartRunStep
    \/ WorkerFinishStep
    \/ ConsumePageStep
    \/ BreakOnShutdownStep
    \/ PageRaisesStep
    \/ PoolCrashStep
    \/ FinishCollectStep
    \/ MainNoBlocksStep
    \/ MainWriteStep
    \/ MainFinishStep
    \/ SigintStep
Spec == Init /\ [][Next]_vars

\* One process started over a checkpoint file that no process wrote.
StartOnlyRunStep == run = 0 /\ StartRunStep
InitForeign == CelInit(ForeignCheckpoints) /\ ApiIdle /\ RLIdle /\ EspIdle /\ FnIdle
NextForeign ==
    \/ StartOnlyRunStep
    \/ WorkerFinishStep
    \/ ConsumePageStep
    \/ BreakOnShutdownStep
    \/ PageRaisesStep
    \/ PoolCrashStep
    \/ FinishCollectStep
    \/ MainNoBlocksStep
    \/ MainWriteStep
    \/ MainFinishStep
    \/ SigintStep
SpecForeign == InitForeign /\ [][NextForeign]_vars

\* The Espresso collector: a run and a re-run over the same day files.
InitEsp == EspInit /\ ApiIdle /\ RLIdle /\ CelIdle /\ FnIdle
NextEsp ==
    \/ EspStartStep
    \/ EspPageDoneStep
    \/ EspNoBlocksStep
    \/ EspDedupSortStep
    \/ EspWriteStep
    \/ EspFinishStep
SpecEsp == InitEsp /\ [][NextEsp]_vars

\* Either collector, run in its own data directory: a Celestia process or
\* an Espresso process, never both.
\* The Celestia process is started with --workers MaxWorkers: the pool of
\* that size allows every completion order a smaller pool allows.
StartPooledRunStep ==
    \E rs \in BOOLEAN, d \in Shifts, n \in 1..MaxPages :
        StartRun(rs, d, n, MaxWorkers) /\ UNCHANGED <<apiVars, rlVars, espVars, fnVars>>
InitCollectors ==
    /\ ApiIdle
    /\ RLIdle
    /\ FnIdle
    /\ \/ CelInit({CkptAbsent}) /\ EspIdle
       \/ CelIdle /\ EspInit
NextCollectors ==
    \/ StartPooledRunStep
    \/ WorkerFinishStep
    \/ ConsumePageStep
    \/ BreakOnShutdownStep
    \/ PageRaisesStep
    \/ PoolCrashStep
    \/ FinishCollectStep
    \/ MainNoBlocksStep
    \/ MainWriteStep
    \/ MainFinishStep
    \/ SigintStep
    \/ NextEsp
SpecCollectors == InitCollectors /\ [][NextCollectors]_vars

\* The Avail transform over every content of the day files.
InitAvail == AvInit /\ FetchIdle /\ SearchIdle /\ ApiIdle /\ RLIdle /\ CelIdle /\ EspIdle
NextAvail == AvLoadStep \/ AvBuildDailyStep \/ AvBuildHourlyStep
SpecAvail == InitAvail /\ [][NextAvail]_vars

\* The worker threads of Celestia's collect_blocks calling fetch_page: the
\* rate limiter, then api_get with its retries, over one clock.
InitFetch == RLInit /\ FetchInit /\ AvIdle /\ SearchIdle /\ ApiIdle /\ CelIdle /\ EspIdle
NextFetch ==
    \/ FetchCallStep
    \/ RLReadNowStep
    \/ RLWakeStep
    \/ RLGrantStep
    \/ FetchRequestStep
    \/ FetchTickStep
SpecFetch == InitFetch /\ [][NextFetch]_vars

\* One call of Espresso's find_height_at_timestamp.
InitSearch == SearchInit /\ AvIdle /\ FetchIdle /\ ApiIdle /\ RLIdle /\ CelIdle /\ EspIdle
NextSearch == (\E o \in {"ok", "raises"} : SearchIterate(o)) \/ SearchReturn
SpecSearch == InitSearch /\ [][NextSearch]_vars

\* The day-file writers of both collectors applied to batches of blocks:
\* main of each collector is about to write the batch, over the day files
\* an earlier batch left.
MaxBatch == 5

\* A set of heights as the ascending list the collectors pass to the writer.
RECURSIVE Ascending(_)
Ascending(S) ==
    IF S = {} THEN <<>>
    ELSE LET m == CHOOSE x \in S : \A y \in S : x <= y
         IN  <<m>> \o Ascending(S \ {m})

CelBatch(S) == [i \in DOMAIN Ascending(S) |-> Block(BaseTip - MaxBatch + Ascending(S)[i], 1)]
EspBatch(S) == [i \in DOMAIN Ascending(S) |-> EspBlock(Ascending(S)[i])]

CelAtWrite(S0, S1) ==
    /\ ckpt_file = CkptAbsent
    /\ day_files = write_daily_csvs(NoFiles, CelBatch(S0))
    /\ run = 1
    /\ pc = "collected"
    /\ exit_code = 0 - 1
    /\ exit_reason = "none"
    /\ resume = FALSE
    /\ workers = 1
    /\ tip = BaseTip
    /\ total_pages = 0
    /\ ckpt = CkptAbsent
    /\ start_page = 0
    /\ honored = FALSE
    /\ pages_done = 0
    /\ all_blocks = CelBatch(S1)
    /\ page = [p \in {} |-> "pending"]
    /\ blocks = CelBatch(S1)
    /\ shutdown_requested = FALSE
    /\ sigints = 0
    /\ prev = NoPrev

EspAtWrite(S0, S1) ==
    /\ e_files = write_day_files(EspNoFiles, EspBatch(S0))
    /\ e_run = 1
    /\ e_pc = "deduped"
    /\ e_exit_code = 0 - 1
    /\ e_exit_reason = "none"
    /\ e_workers = 1
    /\ e_tip = MaxBatch
    /\ e_start_height = 0
    /\ e_max_collected = 0 - 1
    /\ e_fetch_start = 0
    /\ e_pages = <<>>
    /\ e_status = <<>>
    /\ e_all_blocks = EspBatch(S1)
    /\ e_errors = 0
    /\ e_blocks = EspBatch(S1)
    /\ e_failed = {}

InitWriters ==
    /\ ApiIdle
    /\ RLIdle
    /\ FnIdle
    /\ \E S0 \in SUBSET (1..MaxBatch), S1 \in (SUBSET (1..MaxBatch)) \ {{}} :
          CelAtWrite(S0, S1) /\ EspAtWrite(S0, S1)
NextWriters == MainWriteStep \/ EspWriteStep
SpecWriters == InitWriters /\ [][NextWriters]_vars

-----------------------------------------------------------------------------
(* Claims about api_get (checked under SpecApi)                            *)

\* C1: every invocation of api_get ends by returning the parsed body of a
\* successful response or by raising the terminal error; it never returns
\* normally without a response. The code falls off the for loop, returning
\* None, when the last attempt is answered with HTTP 429.
C1_ReturnsBodyOrRaises ==
    api_pc = "done" => api_result \in {"body", "RuntimeError"}

\* The factor each collector's code puts before the growing term of a wait:
\* Celestia sleeps 2 ** (attempt + 1) = 2 * 2^attempt after a 429 and
\* 1.0 * (attempt + 1) after an error; Espresso uses RETRY_DELAY_S.
BaseOf(c, o) ==
    IF c = "Espresso" THEN RETRY_DELAY_S ELSE IF o = "429" THEN 2 ELSE 1

\* C20 as stated: the wait after attempt a (the (a+1)-th wait of the call)
\* is base * 2^a when attempt a was answered with 429 and base * (a+1) when
\* it raised a request error, in both collectors.
C20_ExponentialOn429LinearOnError ==
    \A i \in DOMAIN api_waits :
        LET a == i - 1
            o == api_outcomes[i]
        IN  /\ o = "429" => api_waits[i] = BaseOf(api_collector, o) * 2^a
            /\ o = "error" => api_waits[i] = BaseOf(api_collector, o) * (a + 1)

\* C20, amended: Celestia waits 2 * 2^a after a 429 and 1 * (a+1) after a
\* request error; Espresso waits RETRY_DELAY_S * 2^a after both. Only
\* attempts answered with 429 or ended by a request error are waited after.
C20_BackoffPerCollector ==
    /\ Len(api_waits) = api_attempt
    /\ Len(api_waits) <= Len(api_outcomes)
    /\ \A i \in DOMAIN api_waits :
          LET a == i - 1
              o == api_outcomes[i]
          IN  /\ o \in {"429", "error"}
              /\ a < api_retries
              /\ api_collector = "Celestia" =>
                    api_waits[i] = IF o = "429" THEN 2 * 2^a ELSE a + 1
              /\ api_collector = "Espresso" =>
                    api_waits[i] = RETRY_DELAY_S * 2^a

\* An Espresso call has waited after a 429 and, at attempt 2 or later, after
\* a request error, where the exponential and the linear wait differ.
C20_Witness ==
    /\ api_collector = "Espresso"
    /\ \E i, k \in DOMAIN api_waits :
          /\ i >= 3
          /\ api_outcomes[i] = "error"
          /\ api_outcomes[k] = "429"

\* C21: every invocation of api_get ends after at most `retries` HTTP
\* requests, 3 in Celestia and 5 in Espresso: every pass of the loop issues
\* one request, 429 answers and request errors use up the same budget in
\* any mix and order, and once `retries` requests were issued the call has
\* ended.
C21_AtMostRetriesRequests ==
    /\ api_retries = IF api_collector = "Celestia" THEN 3 ELSE 5
    /\ Len(api_outcomes) <= api_retries
    /\ api_pc = "loop" =>
          /\ Len(api_outcomes) = api_attempt
          /\ api_attempt < api_retries
          /\ \A i \in DOMAIN api_outcomes : api_outcomes[i] \in {"429", "error"}
    /\ api_pc = "done" => api_result # "pending"
    /\ Len(api_outcomes) = api_retries => api_pc = "done"

\* A call has used its whole budget on a mix of 429 answers and request
\* errors, in both orders.
C21_Witness ==
    /\ api_pc = "done"
    /\ Len(api_outcomes) = api_retries
    /\ \E i, j, k \in DOMAIN api_outcomes :
          /\ i < j /\ j < k
          /\ api_outcomes[i] = "429"
          /\ api_outcomes[j] = "error"
          /\ api_outcomes[k] = "429"

-----------------------------------------------------------------------------
(* Claims about the Avail transform (checked under SpecAvail)              *)

\* The rows of the input whose timestamp falls in period p, periods being
\* len timestamp units long.
InPeriod(p, len) ==
    {i \in DOMAIN av_raw : /\ p * len <= av_raw[i].timestamp_ms
                           /\ av_raw[i].timestamp_ms < (p + 1) * len}

RECURSIVE BytesOf(_)
BytesOf(I) ==
    IF I = {} THEN 0
    ELSE LET i == CHOOSE x \in I : TRUE
         IN  av_raw[i].submit_data_bytes + BytesOf(I \ {i})

RECURSIVE CountSum(_, _)
CountSum(rows, n) ==
    IF n = 0 THEN 0 ELSE rows[n].block_count + CountSum(rows, n - 1)

\* The output rows describe the input exactly, for periods of length len.
RowsMatchInput(rows, len) ==
    /\ \A p \in 0..(AvMaxTs \div len) :
          Cardinality({r \in DOMAIN rows : rows[r].period = p})
              = IF InPeriod(p, len) = {} THEN 0 ELSE 1
    /\ \A r \in DOMAIN rows :
          /\ rows[r].period \in 0..(AvMaxTs \div len)
          /\ rows[r].block_count = Cardinality(InPeriod(rows[r].period, len))
          /\ rows[r].total_data_bytes = BytesOf(InPeriod(rows[r].period, len))
    /\ CountSum(rows, Len(rows)) = Len(av_raw)

\* C22: for every non-empty set of blocks, the output of build_period has
\* exactly one row per period (hour or day) that contains a block; its
\* block_count is the number of blocks whose timestamp falls in the period
\* and its total_data_bytes the sum of their sizes; block_count summed
\* over the rows is the number of input blocks.
C22_OneRowPerPeriod ==
    /\ av_pc \in {"daily", "hourly"} =>
          RowsMatchInput(av_daily, AvHourLen * AvHoursPerDay)
    /\ av_pc = "hourly" => RowsMatchInput(av_hourly, AvHourLen)

\* Three blocks of 10, 20 and 30 bytes in one hour, not in timestamp order
\* in the day files: the hourly row reports 60 bytes in 3 blocks.
C22_Witness ==
    /\ av_pc = "hourly"
    /\ Len(av_raw) = 3
    /\ av_raw[1].submit_data_bytes = 30
    /\ av_raw[2].submit_data_bytes = 10
    /\ av_raw[3].submit_data_bytes = 20
    /\ av_raw[1].timestamp_ms = 3
    /\ av_raw[2].timestamp_ms = 2
    /\ av_raw[3].timestamp_ms = 3
    /\ av_hourly = <<[period |-> 1, block_count |-> 3, total_data_bytes |-> 60]>>

\* Blocks spread over several hours and days have been aggregated.
C22_WitnessSeveralPeriods ==
    /\ av_pc = "hourly"
    /\ Len(av_hourly) >= 3
    /\ Len(av_daily) >= 2

-----------------------------------------------------------------------------
(* Claims about RateLimiter (checked under SpecRL)                         *)

\* The threads inside the "with self._lock" block of acquire.
InsideAcquire == {t \in Threads : rl_pc[t] \in {"now", "sleep", "grant"}}

\* C10: grants are mutually exclusive (at most one thread is inside the
\* locked block of acquire) and any two consecutive grants are at least
\* min_interval apart.
C10_GrantsExclusiveAndSpaced ==
    /\ Cardinality(InsideAcquire) <= 1
    /\ \A i \in 1..(Len(rl_grants) - 1) :
          rl_grants[i + 1] - rl_grants[i] >= min_interval

\* Two threads were granted, the second one exactly min_interval after the
\* first, having slept for it.
C10_Witness ==
    /\ Len(rl_grants) >= 2
    /\ rl_grants[2] - rl_grants[1] = min_interval
    /\ \E t \in Threads : rl_wait[t] > 0

-----------------------------------------------------------------------------
(* Claims about Celestia's fetch_page (checked under SpecFetch)            *)

\* C25: every HTTP request to the block-page endpoint, the retries inside
\* api_get included, is preceded by its own RateLimiter grant, so any two
\* requests start at least min_interval (1/RPS_LIMIT) apart.
C25_RequestsSpaced ==
    \A i, j \in DOMAIN fp_requests :
        i < j => fp_requests[j].at - fp_requests[i].at >= min_interval

-----------------------------------------------------------------------------
(* Claims about the Celestia collector (checked under Spec)                *)

\* The step that ends the process.
ProcessEnds == pc # "exited" /\ pc' = "exited"

\* C2: when the fetch of one page fails terminally while other pages
\* succeed, only that page is lost: the process does not abort (it ends with
\* status 0 after writing), and the blocks of every successfully fetched
\* page are in the day files. Stated for processes that receive no SIGINT.
\* In the code the exception leaves pool.map's iterator uncaught: the
\* process ends with a traceback and writes nothing.
C2_OnlyFailedPageLost ==
    [][(/\ ProcessEnds
        /\ sigints' = 0
        /\ \E p \in DOMAIN page : page[p] = "failed"
        /\ \E p \in DOMAIN page : page[p] = "ok")
       => (/\ exit_code' = 0
           /\ exit_reason' = "completed"
           /\ \A p \in DOMAIN page :
                 page[p] = "ok" => PageHeights(tip, p) \subseteq FileHeights')]_vars

\* The loaded checkpoint is one save_checkpoint writes.
WellFormed(c) == c.kind = "object" /\ c.has_pd /\ c.has_tip

\* The fetch of page p has started: a worker thread runs it or has ended it.
Fetched(p) == page[p] \in {"ok", "empty", "failed"} \/ Running(p)

\* C4: with --resume a loaded checkpoint is honored if and only if
\* abs(checkpoint.tip_height - tip) < 2000; when honored fetching starts at
\* page checkpoint.pages_done and no page with a smaller index is fetched;
\* when not honored, and without --resume (the checkpoint is not consulted),
\* fetching starts at page 0.
C4_HonoredIffWithinTolerance ==
    Alive =>
        /\ ~resume => (ckpt = CkptAbsent /\ ~honored /\ start_page = 0)
        /\ (resume /\ WellFormed(ckpt)) =>
              /\ honored <=> Abs(ckpt.tip_height - tip) < 2000
              /\ start_page = IF honored THEN ckpt.pages_done ELSE 0
        /\ \A p \in DOMAIN page : Fetched(p) => p >= start_page
        /\ (\E p \in DOMAIN page : Fetched(p)) => Fetched(start_page)

\* A checkpoint with pages_done = 1 saved at tip 5000 is honored at tip 5003:
\* page 1 has been fetched, page 0 has not.
C4_Witness ==
    /\ pc = "collect"
    /\ total_pages = 2
    /\ resume /\ honored
    /\ ckpt.pages_done = 1 /\ ckpt.tip_height = BaseTip /\ tip = BaseTip + 3
    /\ start_page = 1
    /\ page[1] = "ok" /\ page[0] = "skipped"

\* C5: with --resume and a loaded checkpoint whose tip shift is 2000 or
\* more, fetching restarts at page 0, no block is loaded from the day files,
\* and the result of collect_blocks holds only blocks fetched by this process.
C5_StaleCheckpointIgnored ==
    (Alive /\ resume /\ WellFormed(ckpt) /\ Abs(ckpt.tip_height - tip) >= 2000) =>
        /\ ~honored
        /\ start_page = 0
        /\ \A p \in DOMAIN page : page[p] # "skipped"
        /\ \A i \in DOMAIN all_blocks : all_blocks[i].src = run
        /\ \A i \in DOMAIN blocks : blocks[i].src = run

\* The second process found a checkpoint saved 2000 blocks below its tip and
\* day files of the first process, and has returned from collect_blocks
\* with blocks.
C5_Witness ==
    /\ pc = "collected"
    /\ resume /\ WellFormed(ckpt)
    /\ ckpt.pages_done > 0
    /\ tip - ckpt.tip_height = 2000
    /\ day_files # NoFiles
    /\ blocks # <<>>

\* C7: a process that received exactly one SIGINT ends gracefully: the
\* checkpoint on disk is the one collect_blocks saved, with pages_done
\* counting the pages added to the result, the returned blocks are in the
\* day files and the checkpoint is not cleared. In the code a page failure
\* (C2) ends the process before any of this.
C7_FirstSigintEndsGracefully ==
    [][(ProcessEnds /\ sigints' = 1)
       => (/\ exit_reason' \in {"completed", "no_blocks"}
           /\ ckpt_file' = save_checkpoint(pages_done, tip, total_pages, run)
           /\ Heights(blocks) \subseteq FileHeights'
           /\ (blocks # <<>> => exit_code' = 0))]_vars

\* The same statement for processes that no page failure ends: it holds, so
\* the page failure is the only way the first SIGINT ends ungracefully.
C7_GracefulUnlessPageFails ==
    [][(ProcessEnds /\ sigints' = 1 /\ exit_reason' # "page_failure")
       => (/\ exit_reason' \in {"completed", "no_blocks"}
           /\ ckpt_file' = save_checkpoint(pages_done, tip, total_pages, run)
           /\ Heights(blocks) \subseteq FileHeights'
           /\ (blocks # <<>> => exit_code' = 0))]_vars

\* C8: after a cooperative shutdown every page whose fetch completed
\* successfully before collect_blocks returned has its blocks in the
\* returned result. In the code the loop breaks before adding the page it
\* was handed, and the pages completed after it are never read.
C8_NoFetchedPageDiscarded ==
    (pc = "collected" /\ shutdown_requested) =>
        \A p \in DOMAIN page :
            page[p] = "ok" => PageHeights(tip, p) \subseteq Heights(blocks)

\* C9: the first SIGINT only sets shutdown_requested and does not end the
\* process; a SIGINT received while shutdown_requested is set ends the
\* process with exit status 1.
C9_SigintTwoStates ==
    [][(sigints' = sigints + 1) =>
          IF shutdown_requested
             THEN pc' = "exited" /\ exit_code' = 1
             ELSE /\ shutdown_requested'
                  /\ pc' = pc
                  /\ exit_code' = exit_code
                  /\ exit_reason' = exit_reason]_vars

\* A process ended by its second SIGINT.
C9_Witness ==
    /\ pc = "exited"
    /\ sigints = 2
    /\ shutdown_requested
    /\ exit_reason = "force_exit"
    /\ exit_code = 1

\* The heights a single uninterrupted run of n pages covers under tip t.
Window(t, n) == UNION {PageHeights(t, p) : p \in 0..(n - 1)}

\* The number of rows in the day files.
FileRows ==
    LET RECURSIVE Sum(_)
        Sum(ds) == IF ds = {} THEN 0
                   ELSE LET d == CHOOSE x \in ds : TRUE
                        IN  Len(day_files[d]) + Sum(ds \ {d})
    IN  Sum(DOMAIN day_files)

\* The second process resumed, from the checkpoint it honored, a first
\* process that started from page 0 and was stopped by one SIGINT after k =
\* start_page pages, all fetched successfully; it has fetched and added every
\* remaining page and written the day files.
ResumedRunWritten ==
    /\ run = 2
    /\ pc = "written"
    /\ resume /\ honored
    /\ prev.shutdown /\ prev.clean
    /\ prev.reason \in {"completed", "no_blocks"}
    /\ start_page = prev.pages_done
    /\ pages_done = total_pages
    /\ \A p \in DOMAIN page : p >= start_page => page[p] = "ok"

\* C3: after an interrupted run and its resumption under a tip shift below
\* 2000, the day files hold exactly the heights of a single uninterrupted run
\* covering the same range, lowest to highest height on disk: no height of
\* the range is missing and none appears twice. Stated for shifts smaller
\* than the window (a day has 14,400 blocks, so every real window is wider
\* than 2000). In the code the pages of the second process are cut at
\* offsets from the new tip: when the tip is lower than at the checkpoint,
\* the heights between the two parts are never fetched.
C3_SameAsUninterrupted ==
    (ResumedRunWritten /\ Abs(tip - prev.tip) < total_pages * PAGE_SIZE) =>
        LET lo == CHOOSE h \in FileHeights : \A g \in FileHeights : h <= g
            hi == CHOOSE h \in FileHeights : \A g \in FileHeights : h >= g
        IN  /\ FileHeights = lo..hi
            /\ FileRows = Cardinality(FileHeights)

\* What the code leaves instead: each height once, the heights of pages
\* 0..k-1 under the first tip and of pages k..total_pages-1 under the second
\* tip. This is the window of an uninterrupted run when the tip has not
\* moved (or k is 0 or total_pages), and of no uninterrupted run under either
\* tip when it has moved and 0 < k < total_pages.
ResumeJoinsTwoTips ==
    ResumedRunWritten =>
        LET k == start_page
            old == UNION {PageHeights(prev.tip, p) : p \in 0..(k - 1)}
            new == UNION {PageHeights(tip, p) : p \in k..(total_pages - 1)}
        IN  /\ FileHeights = old \cup new
            /\ FileRows = Cardinality(FileHeights)
            /\ tip = prev.tip => FileHeights = Window(tip, total_pages)
            /\ k = 0 => FileHeights = Window(tip, total_pages)
            /\ k = total_pages => FileHeights = Window(prev.tip, total_pages)
            /\ (tip # prev.tip /\ 0 < k /\ k < total_pages) =>
                  FileHeights \notin {Window(prev.tip, total_pages),
                                      Window(tip, total_pages)}

-----------------------------------------------------------------------------
(* Claims about a checkpoint file of foreign content (checked under        *)
(* SpecForeign)                                                            *)

\* C6: whatever the checkpoint file holds, a process started with --resume
\* treats it as no checkpoint: it starts from page 0 and does not end with
\* an error because of the checkpoint. In the code bytes that are not text,
\* a JSON value that is not an object and an object without pages_done each
\* raise an exception nothing catches.
C6_ForeignCheckpointIsAbsent ==
    (run = 1 /\ resume) =>
        /\ exit_reason # "checkpoint_error"
        /\ start_page = 0
        /\ ~honored

\* The process ends after a run that consumed every planned page.
EndsWithAllPagesConsumed ==
    /\ Alive
    /\ pc' = "exited"
    /\ pages_done = total_pages

StoredRows(files) == UNION {{files[d][i] : i \in DOMAIN files[d]} : d \in DOMAIN files}

\* Every record of s whose height is stored in files is the stored record.
AgreesWithStored(s, files) ==
    \A i \in DOMAIN s : \A r \in StoredRows(files) :
        s[i].height = r.height => s[i].src = r.src

HeightsOfFirstPages(t, k) == UNION {PageHeights(t, p) : p \in 0..(k - 1)}

\* C28: the checkpoint on disk is never ahead of the data on disk. At every
\* moment, a process running or not, if the checkpoint file records
\* pages_done = k > 0 for its tip, the blocks of the pages 0 .. k-1 of that
\* tip are in the day files.
C28_CheckpointNotAheadOfFiles ==
    (ckpt_file.kind = "object" /\ ckpt_file.pages_done > 0) =>
        HeightsOfFirstPages(ckpt_file.tip_height, ckpt_file.pages_done) \subseteq FileHeights

\* The blocks of the pages a .. b-1 as their fetches delivered them, in the
\* order of the page index.
RECURSIVE BlocksOfPages(_, _)
BlocksOfPages(a, b) ==
    IF a >= b THEN <<>> ELSE BlocksOfPages(a, b - 1) \o ResultOf(b - 1)

\* The blocks of all_blocks that this process fetched.
FetchedByThisRun == SelectSeq(all_blocks, LAMBDA b : b.src = run)

\* C29: pages are consumed in ascending offset order, whatever order the
\* worker threads complete them in. At every point of collect_blocks,
\* pages_done = start_page + j and the blocks added to the result are exactly
\* those of the pages start_page .. start_page+j-1, in that order, and of no
\* higher page; every checkpoint the run saves records the pages_done of that
\* moment; pages_done never decreases during a run.
C29_PagesConsumedInOrder ==
    [][/\ pc' \in {"collect", "pool_exit"}
            => /\ start_page' <= pages_done'
               /\ pages_done' <= total_pages'
               /\ FetchedByThisRun' = BlocksOfPages(start_page, pages_done)'
       /\ (pc \in {"collect", "pool_exit"} /\ ckpt_file' # ckpt_file)
            => /\ ckpt_file'.kind = "object"
               /\ ckpt_file'.pages_done = pages_done'
               /\ ckpt_file'.tip_height = tip
               /\ FetchedByThisRun' = BlocksOfPages(start_page, pages_done)'
       /\ run' = run => pages_done' >= pages_done]_vars

\* Two workers: page 0 has been added; page 1 is fetched and not yet added.
C29_Witness ==
    /\ pc = "collect"
    /\ total_pages = 2
    /\ workers = 2
    /\ start_page = 0
    /\ pages_done = 1
    /\ page[0] = "ok"
    /\ page[1] = "ok"
    /\ FetchedByThisRun = PageBlocks(tip, 0, run)

\* Page 1 has completed while page 0 is still being fetched: nothing is added.
C29_WitnessOutOfOrder ==
    /\ pc = "collect"
    /\ total_pages = 2
    /\ workers = 2
    /\ pages_done = 0
    /\ page[0] = "pending"
    /\ page[1] = "ok"
    /\ all_blocks = <<>>

\* Both pages have been added and the checkpoint of the second is saved.
C29_WitnessCheckpoint ==
    /\ pc = "collect"
    /\ total_pages = 2
    /\ workers = 2
    /\ start_page = 0
    /\ pages_done = 2
    /\ page[0] = "ok"
    /\ page[1] = "ok"
    /\ ckpt_file.kind = "object"
    /\ ckpt_file.pages_done = 2
    /\ FetchedByThisRun = PageBlocks(tip, 0, run) \o PageBlocks(tip, 1, run)

-----------------------------------------------------------------------------
(* Claims about the Espresso collector (checked under SpecEsp)             *)

\* The number of data rows in the Espresso day files.
EspFileRows ==
    LET RECURSIVE Sum(_)
        Sum(ds) == IF ds = {} THEN 0
                   ELSE LET d == CHOOSE x \in ds : TRUE
                        IN  (Len(e_files[d]) - 1) + Sum(ds \ {d})
    IN  Sum(DOMAIN e_files)

\* The heights of the pages of the current process that yielded nothing:
\* their fetch raised, or came back without blocks.
EspLost ==
    UNION {EspPageHeights(e_pages[p]) :
              p \in {q \in DOMAIN e_status : e_status[q] \in {"failed", "empty"}}}

\* The API returned exactly the requested heights for every successful page.
EspExact == \A p \in DOMAIN e_status : e_status[p] # "wide"

C12_DayFilesStrictlyAscending ==
    \A d \in DOMAIN e_files :
        \A i \in 2..(Len(e_files[d]) - 1) :
            e_files[d][i].height < e_files[d][i + 1].height

\* The second run, which fetched a page that overlaps its neighbour, has
\* appended rows to a day file of the first run and created another.
C12_Witness ==
    /\ e_run = 2
    /\ e_pc = "written"
    /\ \E p \in DOMAIN e_status : e_status[p] = "wide"
    /\ \E d \in DOMAIN e_files :
          /\ \E i \in 2..Len(e_files[d]) : e_files[d][i].height <= e_max_collected
          /\ \E i \in 2..Len(e_files[d]) : e_files[d][i].height > e_max_collected
    /\ \E d \in DOMAIN e_files :
          \A i \in 2..Len(e_files[d]) : e_files[d][i].height > e_max_collected

\* C14: after any sequence of write_day_files calls every day file has
\* exactly one header row, and it is the first line.
C14_OneHeaderFirst ==
    \A d \in DOMAIN e_files :
        /\ Len(e_files[d]) >= 1
        /\ e_files[d][1].kind = "header"
        /\ \A i \in 2..Len(e_files[d]) : e_files[d][i].kind = "row"

\* A day file the first run created has been appended to by the second.
C14_Witness ==
    /\ e_run = 2
    /\ e_pc \in {"written", "exited"}
    /\ e_max_collected >= 0
    /\ \E d \in DOMAIN e_files :
          /\ e_files[d][2].height <= e_max_collected
          /\ e_files[d][Len(e_files[d])].height > e_max_collected

\* C16: the pages planned for [fetch_start, tip] are ordered by height,
\* their intervals [from-limit+1, from] are pairwise disjoint and cover
\* exactly [fetch_start, tip]; every limit is within 1..PAGE_SIZE, only the
\* last page may be shorter than PAGE_SIZE, and a range of exactly
\* PAGE_SIZE heights gives the single page (from = tip, limit = PAGE_SIZE).
C16_PagesCoverFetchRange ==
    e_pc = "fetch" =>
        /\ e_fetch_start <= e_tip
        /\ Len(e_pages) >= 1
        /\ \A p \in DOMAIN e_pages :
              /\ e_pages[p].limit \in 1..PAGE_SIZE
              /\ p < Len(e_pages) => e_pages[p].limit = PAGE_SIZE
        /\ \A p, q \in DOMAIN e_pages :
              p < q => /\ e_pages[p].from < e_pages[q].from
                       /\ EspPageHeights(e_pages[p]) \cap EspPageHeights(e_pages[q]) = {}
        /\ UNION {EspPageHeights(e_pages[p]) : p \in DOMAIN e_pages} = e_fetch_start..e_tip
        /\ e_tip - e_fetch_start + 1 = PAGE_SIZE =>
              e_pages = <<[from |-> e_tip, limit |-> PAGE_SIZE]>>

\* Several pages are planned, the last one shorter than PAGE_SIZE and
\* ending at the tip.
C16_Witness ==
    /\ e_pc = "fetch"
    /\ Len(e_pages) >= 2
    /\ e_pages[Len(e_pages)].limit < PAGE_SIZE
    /\ e_pages[Len(e_pages)].from = e_tip

\* A range of exactly PAGE_SIZE heights is planned as one full page.
C16_WitnessOnePage ==
    /\ e_pc = "fetch"
    /\ e_tip - e_fetch_start + 1 = PAGE_SIZE
    /\ Len(e_pages) = 1

\* C18: the heights of a page that failed in an earlier run and are missing
\* from the day files are fetched again by a later run whose range
\* [start_height, tip] includes them: they are at or above the height the
\* later run starts fetching from.
C18_GapIsFetchedAgain ==
    (e_run = 2 /\ (e_pc = "fetch" \/ e_exit_reason = "up_to_date")) =>
        \A h \in e_failed :
            (e_start_height <= h /\ h <= e_tip /\ h \notin EspFileHeights)
                => e_fetch_start <= h

\* The highest height stored in any day file, -1 when none is stored.
HighestStored(files) ==
    LET hs == UNION {{files[d][i].height : i \in 2..Len(files[d])} : d \in DOMAIN files}
    IN  IF hs = {} THEN 0 - 1 ELSE CHOOSE h \in hs : \A g \in hs : g <= h

\* The heights of the lines a step adds to the day files.
EspAdded(old, new) ==
    UNION {{new[d][i].height :
               i \in ((IF d \in DOMAIN old THEN Len(old[d]) ELSE 1) + 1)..Len(new[d])} :
           d \in DOMAIN new}

\* C27: the collector resumes from the highest stored height m. When
\* m >= start_height, the planned pages cover exactly [m+1, tip] and no block
\* with height <= m is written; when m >= tip the run plans no page and
\* returns at once, and no step of it changes a day file.
C27_ResumesAboveHighestStored ==
    [][LET m == HighestStored(e_files)
       IN  /\ (e_run' = e_run + 1 /\ m >= e_start_height' /\ m < e_tip')
                => /\ e_pc' = "fetch"
                   /\ UNION {EspPageHeights(e_pages'[p]) : p \in DOMAIN e_pages'}
                         = (m + 1)..e_tip'
           /\ (e_run' = e_run + 1 /\ m >= e_tip')
                => /\ e_pc' = "exited"
                   /\ e_exit_reason' = "up_to_date"
                   /\ e_pages' = <<>>
                   /\ e_files' = e_files
           /\ (e_pc = "deduped" /\ e_pc' = "written" /\ e_max_collected >= e_start_height)
                => /\ \A h \in EspAdded(e_files, e_files') : h > m
                   /\ \A d \in DOMAIN e_files :
                         SubSeq(e_files'[d], 1, Len(e_files[d])) = e_files[d]
           /\ (e_exit_reason = "up_to_date" /\ e_pc = "exited" /\ e_run' = e_run)
                => e_files' = e_files]_vars

\* A second run found stored heights at or above its start height, was sent
\* a block below the height it resumed from, and has written its blocks.
C27_Witness ==
    /\ e_run = 2
    /\ e_pc = "written"
    /\ e_max_collected >= e_start_height
    /\ e_fetch_start = e_max_collected + 1
    /\ \E i \in DOMAIN e_all_blocks : e_all_blocks[i].height <= e_max_collected
    /\ e_blocks # <<>>

\* A second run with the tip unchanged found everything stored and returned.
C27_WitnessUpToDate ==
    /\ e_run = 2
    /\ e_pc = "exited"
    /\ e_exit_reason = "up_to_date"
    /\ HighestStored(e_files) = e_tip

\* The pages of the run that failed, and the heights the others were asked
\* for and delivered.
FailedPages == {p \in DOMAIN e_status : e_status[p] = "failed"}
SucceededHeights ==
    UNION {EspPageHeights(e_pages[p]) :
              p \in {q \in DOMAIN e_status : e_status[q] \in {"ok", "wide"}}}

\* C24: a page whose fetch raises is logged and skipped without aborting
\* the run: whatever set of pages fails, the error count is the number of
\* failed pages, the run goes on to dedup as soon as one page delivered
\* blocks, and the blocks of every page that did not fail are in the
\* sorted list and, after the write, in the day files.
C24_FailedPagesSkipped ==
    /\ e_pc \in {"fetch", "deduped", "written"} =>
          /\ e_errors = Cardinality(FailedPages)
          /\ SucceededHeights \subseteq Heights(e_all_blocks)
    /\ e_pc \in {"deduped", "written"} =>
          /\ SucceededHeights # {}
          /\ SucceededHeights \subseteq Heights(e_blocks)
          /\ \A i, j \in DOMAIN e_blocks : i < j => e_blocks[i].height < e_blocks[j].height
    /\ e_pc = "written" => SucceededHeights \subseteq EspFileHeights

\* A run in which the first page failed before the others completed has
\* written the blocks of the others.
C24_Witness ==
    /\ e_pc = "written"
    /\ Len(e_pages) >= 3
    /\ e_status[1] = "ok"
    /\ e_status[2] = "failed"
    /\ e_status[3] = "ok"
    /\ e_errors = 1
    /\ EspFileHeights = (e_fetch_start..e_tip) \ EspPageHeights(e_pages[2])

-----------------------------------------------------------------------------
(* Claims about find_height_at_timestamp (checked under SpecSearch)        *)

\* Header timestamps that are non-decreasing in the height.
NonDecreasing(ts) == \A g, h \in DOMAIN ts : g <= h => ts[g] <= ts[h]

\* The heights of the call's range whose timestamp is at or after the target.
AtOrAfterTarget(c) == {g \in c.lo..c.hi : c.ts[g] >= c.target_ts}

-----------------------------------------------------------------------------
(* Claims about the day-file writers (checked under SpecWriters)           *)

\* The rows a call of Celestia's write_daily_csvs writes to the file of
\* date d: the file is opened with "w", so they are its new content.
CelWritten(d) ==
    IF d \in {blocks[i].date : i \in DOMAIN blocks} THEN day_files'[d] ELSE <<>>

\* The rows a call of Espresso's write_day_files writes to the file of date
\* d: what the file has gained, without the header of a new file.
EspWritten(d) ==
    IF d \in DOMAIN e_files
       THEN SubSeq(e_files'[d], Len(e_files[d]) + 1, Len(e_files'[d]))
       ELSE SubSeq(e_files'[d], 2, Len(e_files'[d]))

RECURSIVE SumLen(_, _)
SumLen(f, ds) ==
    IF ds = {} THEN 0
    ELSE LET d == CHOOSE x \in ds : TRUE IN Len(f[d]) + SumLen(f, ds \ {d})

\* C13: for every batch passed to a day-file writer, each block is written
\* to exactly one day file, the one named after the UTC day of the block's
\* timestamp, and the rows written over all day files are as many as the
\* blocks of the batch.
C13_BatchPartitionedByDay ==
    [][/\ (pc = "collected" /\ pc' = "written") =>
            LET w == [d \in DOMAIN day_files' |-> CelWritten(d)]
            IN  /\ \A i \in DOMAIN blocks : \A d \in DOMAIN w :
                      Cardinality({j \in DOMAIN w[d] : w[d][j] = Row(blocks[i])})
                          = IF d = blocks[i].height \div DayLen THEN 1 ELSE 0
                /\ SumLen(w, DOMAIN w) = Len(blocks)
       /\ (e_pc = "deduped" /\ e_pc' = "written") =>
            LET w == [d \in DOMAIN e_files' |-> EspWritten(d)]
            IN  /\ \A i \in DOMAIN e_blocks : \A d \in DOMAIN w :
                      Cardinality({j \in DOMAIN w[d] : w[d][j] = RowLine(e_blocks[i])})
                          = IF d = e_blocks[i].timestamp_ms \div DayLen THEN 1 ELSE 0
                /\ SumLen(w, DOMAIN w) = Len(e_blocks)]_vars

\* Both writers have written a batch that spans a day boundary, over day
\* files that an earlier batch left.
C13_Witness ==
    /\ pc = "written"
    /\ e_pc = "written"
    /\ Cardinality({blocks[i].date : i \in DOMAIN blocks}) >= 2
    /\ Cardinality({ts_to_date(e_blocks[i].timestamp_ms) : i \in DOMAIN e_blocks}) >= 2
    /\ \E d \in DOMAIN e_files : Len(e_files[d]) - 1 > Len(SelectSeq(e_blocks,
                                        LAMBDA b : ts_to_date(b.timestamp_ms) = d))

-----------------------------------------------------------------------------
(* Claims about both collectors (checked under SpecCollectors)             *)

StrictlyAscending(s) ==
    \A i, j \in DOMAIN s : i < j => s[i].height < s[j].height

\* The heights the pages consumed by Celestia's for loop delivered.
CelDelivered ==
    UNION {PageHeights(tip, p) : p \in {q \in DOMAIN page :
              start_page <= q /\ q < pages_done /\ page[q] = "ok"}}

\* The heights the successful pages of the Espresso run delivered.
EspDelivered ==
    UNION {Heights(EspResultOf(p, e_status[p])) : p \in DOMAIN e_status}

\* C15: the final block list of each collector is the same for every order
\* in which the page fetches complete. It is strictly ascending by height
\* (so one record per height) and is fixed by which pages succeeded: for
\* Celestia the stored records a resumed run loaded, then one record for
\* every further height of a consumed page; for Espresso one record for
\* every height of [fetch_start, tip] that a page delivered.
C15_FinalListIndependentOfOrder ==
    /\ pc \in {"collected", "written"} =>
          LET old == ExistingAtStart(start_page, day_files)
          IN  /\ StrictlyAscending(blocks)
              /\ Heights(blocks) = Heights(all_blocks)
              /\ pc = "collected" =>
                    /\ Heights(blocks) = Heights(old) \cup CelDelivered
                    /\ \A i \in DOMAIN blocks :
                          IF blocks[i].height \in Heights(old)
                             THEN \E k \in DOMAIN old : old[k] = blocks[i]
                             ELSE blocks[i] = Block(blocks[i].height, run)
    /\ e_pc \in {"deduped", "written"} =>
          /\ StrictlyAscending(e_blocks)
          /\ e_blocks = EspBatch(EspDelivered \cap (e_fetch_start..e_tip))

\* An Espresso run whose last page completed before its first one and
\* whose pages overlapped has built its final list.
C15_Witness ==
    /\ e_pc = "deduped"
    /\ Len(e_all_blocks) > Len(e_blocks)
    /\ \E i, j \in DOMAIN e_all_blocks :
          i < j /\ e_all_blocks[i].height > e_all_blocks[j].height + PAGE_SIZE

\* A resumed Celestia run has re-fetched heights that were stored.
C15_WitnessResumed ==
    /\ pc = "collected"
    /\ honored
    /\ Len(all_blocks) > Len(blocks)

\* C17: in each collector, when collection ends with an empty result set
\* the process writes no day file and exits with a non-zero exit code.
C17_EmptyResultExitsNonZero ==
    /\ (pc = "exited" /\ exit_reason = "no_blocks") =>
          /\ exit_code # 0
          /\ run = 1 => day_files = NoFiles
    /\ (e_pc = "exited" /\ e_exit_reason = "no_blocks") =>
          /\ e_exit_code # 0
          /\ e_run = 1 => e_files = EspNoFiles

\* C23: day files are append-only across the runs of a collector: a height
\* once written to a day file is in the day files after every later step
\* of every later run, for Celestia and for Espresso.
C23_HeightsNeverLeaveDayFiles ==
    [][/\ FileHeights \subseteq FileHeights'
       /\ EspFileHeights \subseteq EspFileHeights']_vars

=============================================================================
